---------------------------- MODULE Spec2Model ----------------------------
(***************************************************************************)
(* Model of the MILP allocators of edarop (src/edarop/edarop.py), of the   *)
(* domain model they read (src/edarop/model.py) and of the analyzer that   *)
(* measures their solutions (src/edarop/analysis.py).                      *)
(*                                                                         *)
(* A behaviour is one call of solve() on one allocator: the builder        *)
(* creates the variables, the objective and the constraints, the backend   *)
(* answers, the answer is decoded into a Solution; the two-stage           *)
(* allocators do this twice.  The backend is the environment: it answers   *)
(* with any assignment of the variables that satisfies the constraints the *)
(* builder emitted (a best one when it reports optimality), or reports     *)
(* that it could not.                                                      *)
(***************************************************************************)
EXTENDS Integers, Sequences, FiniteSets, TLC

(***************************************************************************)
(* Bounds of the model.                                                    *)
(***************************************************************************)
\* Largest request count of one workload entry in one time slot; also the
\* cap of a request variable that no demand constraint fixes.
MaxReq == 1
None == "None"

(***************************************************************************)
(* Time units (model.py, TimeUnit.conversion_factors) and quantities.      *)
(***************************************************************************)
conversion_factors == [s |-> 1, m |-> 60, h |-> 3600]

\* TimeUnit.to: how many to_unit there are in one unit.  The model only
\* converts to units that divide the source unit, so \div is exact.
TimeUnit_to(unit, to_unit) ==
    conversion_factors[unit] \div conversion_factors[to_unit]

\* TimeValue.to: magnitude of a time in time_unit.
TimeValue_to(tv, time_unit) == tv.value * TimeUnit_to(tv.units, time_unit)

\* TimeRatioValue.to: magnitude of a rate (price, performance) per time_unit.
\* The rates of the model are given per time slot or per a multiple of it.
TimeRatioValue_to(rv, time_unit) ==
    (rv.value * conversion_factors[time_unit]) \div conversion_factors[rv.units]

\* Defaults of Problem.max_cost and Problem.max_avg_resp_time: not set.
COST_UNDEFINED == -1
TIME_UNDEFINED == [num |-> -1, den |-> 1, units |-> "s"]

(***************************************************************************)
(* The inputs: one app, a catalog of one or two instance classes, two      *)
(* source regions.  r1 is a cloud region (instance class i1), r2 an edge   *)
(* region with users and, in the two-class catalogs, instance class i2;    *)
(* r3 is a region with users only.                                         *)
(***************************************************************************)
MaxRespTimes == {[value |-> 90, units |-> "s"], [value |-> 2, units |-> "m"]}

AppsOf(mrt) == <<[name |-> "a0", max_resp_time |-> mrt]>>

ic1 == [name |-> "i1", price |-> [value |-> 1, units |-> "h"], region |-> "r1"]
ic2 == [name |-> "i2", price |-> [value |-> 2, units |-> "h"], region |-> "r2"]

Catalogs == {<<ic1>>, <<ic1, ic2>>}

\* Performance of the app on i1: 2 * MaxReq requests per hour (or MaxReq
\* when i1 is the whole catalog) and 10 s of service time; on i2: MaxReq
\* requests per hour and one minute of service time.
Perf1(v) == [value |-> [value |-> v, units |-> "h"],
             slo |-> [value |-> 10, units |-> "s"]]
Perf2 == [value |-> [value |-> MaxReq, units |-> "h"],
          slo |-> [value |-> 1, units |-> "m"]]

Range(seq) == {seq[n] : n \in DOMAIN seq}

\* The performance maps of a catalog: i1 always runs the app, i2 may not.
PerfsOf(apps, ics) ==
    LET a == apps[1] IN
    { p1 @@ p2 :
        p1 \in { (<<a, ic1>> :> Perf1(v)) :
                    v \in IF ic2 \in Range(ics) THEN {2 * MaxReq}
                          ELSE {MaxReq, 2 * MaxReq} },
        p2 \in IF ic2 \in Range(ics)
               THEN { <<>>, (<<a, ic2>> :> Perf2) }
               ELSE { <<>> } }

\* Latency of each route the inputs may contain, in seconds.
RouteLatency == (<<"r2", "r1">> :> 80) @@ (<<"r3", "r1">> :> 100)
                @@ (<<"r2", "r2">> :> 1)

\* The latency maps: any subset of the routes into the regions of the catalog.
LatenciesOf(ics) ==
    LET usable == {rt \in DOMAIN RouteLatency :
                      \E i \in Range(ics) : i.region = rt[2]}
    IN { [rt \in routes |->
            [value |-> [value |-> RouteLatency[rt], units |-> "s"]]] :
         routes \in SUBSET usable }

Systems ==
    UNION { { [apps |-> AppsOf(mrt), ics |-> ics, perfs |-> perfs,
               latencies |-> lats] :
                 perfs \in PerfsOf(AppsOf(mrt), ics), lats \in LatenciesOf(ics) } :
            mrt \in MaxRespTimes, ics \in Catalogs }

SourceRegions == {"r2", "r3"}

\* The workload maps of an app, all of one length and one slot unit (what
\* Problem.__post_init__ accepts): one slot with an entry for one or both
\* source regions, or two slots with an entry for r2.
WorkloadShapes == {<<srcs, 1>> : srcs \in (SUBSET SourceRegions) \ {{}}}
                     \cup {<<{"r2"}, 2>>}

WorkloadsOf(a) ==
    UNION { { [key \in {<<a, e>> : e \in sh[1]} |->
                 [values |-> vals[key[2]], time_unit |-> "h"]] :
              vals \in [sh[1] -> [1..sh[2] -> 0..MaxReq]] } :
            sh \in WorkloadShapes }

\* Caps a Problem may set.
MaxCosts == {COST_UNDEFINED, 1, 3}
MaxAvgRespTimes == {TIME_UNDEFINED, [num |-> 70, den |-> 1, units |-> "s"]}

\* The caps of a Problem, <<max_cost, max_avg_resp_time>>: at most one is set.
Caps ==
    {c \in MaxCosts \X MaxAvgRespTimes :
        c[1] = COST_UNDEFINED \/ c[2] = TIME_UNDEFINED}

Problems ==
    UNION { { [system |-> sys, workloads |-> wl, max_cost |-> c[1],
               max_avg_resp_time |-> c[2]] :
                 wl \in WorkloadsOf(sys.apps[1]) } :
            sys \in Systems, c \in Caps }

(***************************************************************************)
(* Problem (model.py): derived properties.                                 *)
(***************************************************************************)
\* Problem.workload_len: the length of a workload (all have the same).
workload_len(P) ==
    Len(P.workloads[CHOOSE key \in DOMAIN P.workloads : TRUE].values)

\* Problem.time_slot_unit: the slot unit of a workload (all have the same).
time_slot_unit(P) ==
    P.workloads[CHOOSE key \in DOMAIN P.workloads : TRUE].time_unit

\* Problem.regions: the regions of the instance classes and of the workloads.
regions(P) ==
    {i.region : i \in Range(P.system.ics)} \cup {key[2] : key \in DOMAIN P.workloads}

\* The time slots, numbered as range(workload_len) numbers them.
Slots(P) == 0 .. (workload_len(P) - 1)

\* workloads[(a, e)].values[k].magnitude, for a key the map has.
Workload(P, a, e, k) == P.workloads[<<a, e>>].values[k + 1]

\* System.resp_time: latency of the route plus service time, in seconds.
resp_time(sys, app, region, ic) ==
    LET slo == TimeValue_to(sys.perfs[<<app, ic>>].slo, "s")
        latency == TimeValue_to(sys.latencies[<<region, ic.region>>].value, "s")
    IN [value |-> slo + latency, units |-> "s"]

RECURSIVE Sum(_, _)
\* Sum of f over the set S of arguments.
Sum(f, S) ==
    IF S = {} THEN 0
    ELSE LET e == CHOOSE e \in S : TRUE IN f[e] + Sum(f, S \ {e})

(***************************************************************************)
(* EdaropAllocator: variables.  An allocator object lp is a record with    *)
(* its class (cls, "C" or "R") and its problem.                            *)
(***************************************************************************)
\* The names are formatted strings, f"{a.name}_{i.name}_{k}" and
\* f"{a.name}_{e.name}_{i.name}_{k}"; a region e is its name.
_aik_name(a, i, k) == a.name \o "_" \o i.name \o "_" \o ToString(k)
_aeik_name(a, e, i, k) ==
    a.name \o "_" \o e \o "_" \o i.name \o "_" \o ToString(k)

_can_send_requests(P, src, dst) == <<src, dst>> \in DOMAIN P.system.latencies

\* (app, instance class) pairs of the X variables (_create_vars_x): the
\* pairs with a Performance.
XIndex(P) ==
    {<<a, i>> \in Range(P.system.apps) \X Range(P.system.ics) :
        <<a, i>> \in DOMAIN P.system.perfs}

\* The triples of the Y and Z variables with a slip: only the instance
\* classes that can run the app get variables.
YIndex_with_performance(P) ==
    {<<a, e, i>> \in Range(P.system.apps) \X regions(P) \X Range(P.system.ics) :
        _can_send_requests(P, e, i.region) /\ <<a, i>> \in DOMAIN P.system.perfs}

\* (app, region, instance class) triples of the Y and of the Z variables
\* (_create_vars_y, _create_vars_z): the routes with a latency, whether or
\* not the instance class can run the app.
YIndex(P) ==
    {<<a, e, i>> \in Range(P.system.apps) \X regions(P) \X Range(P.system.ics) :
        _can_send_requests(P, e, i.region)}

x_names_at(P, k) == {_aik_name(t[1], t[2], k) : t \in XIndex(P)}
y_names_at(P, k) == {_aeik_name(t[1], t[2], t[3], k) : t \in YIndex(P)}

x_names(P) == UNION {x_names_at(P, k) : k \in Slots(P)}
y_names(P) == UNION {y_names_at(P, k) : k \in Slots(P)}
z_names(P) == y_names(P)

\* XVarInfo.price_per_ts and XVarInfo.perf_per_ts.
price_per_ts(P, i) == TimeRatioValue_to(i.price, time_slot_unit(P))
perf_per_ts(P, a, i) ==
    TimeRatioValue_to(P.system.perfs[<<a, i>>].value, time_slot_unit(P))

\* _workload_for_app_in_time_slot
_workload_for_app_in_time_slot(P, a, k) ==
    LET rs == {r \in regions(P) : <<a, r>> \in DOMAIN P.workloads}
    IN Sum([r \in rs |-> Workload(P, a, r, k)], rs)

\* _get_total_reqs
_get_total_reqs(P) ==
    LET keys == {t \in Range(P.system.apps) \X regions(P) \X Slots(P) :
                    <<t[1], t[2]>> \in DOMAIN P.workloads}
    IN Sum([t \in keys |-> Workload(P, t[1], t[2], t[3])], keys)

(***************************************************************************)
(* EdaropAllocator: constraints, each as the predicate it puts on the      *)
(* values x, y, z of the variables, for time slot k.                       *)
(***************************************************************************)
_create_contraints_throughput_per_app(P, x, k) ==
    \A a \in Range(P.system.apps) :
        LET ics == {i \in Range(P.system.ics) : <<a, i>> \in DOMAIN P.system.perfs}
        IN Sum([i \in ics |-> x[_aik_name(a, i, k)] * perf_per_ts(P, a, i)], ics)
              >= _workload_for_app_in_time_slot(P, a, k)

\* The capacity constraint with a slip: the requests that come from the
\* region of the instance class itself are left out of the sum.
throughput_per_ic_without_local(P, x, y, k) ==
    \A t \in XIndex(P) :
        LET a == t[1]
            i == t[2]
            es == {e \in regions(P) :
                     _can_send_requests(P, e, i.region) /\ e # i.region}
        IN x[_aik_name(a, i, k)] * perf_per_ts(P, a, i)
              >= Sum([e \in es |-> y[_aeik_name(a, e, i, k)]], es)

_create_contraints_throughput_per_ic(P, x, y, k) ==
    \A t \in XIndex(P) :
        LET a == t[1]
            i == t[2]
            es == {e \in regions(P) : _can_send_requests(P, e, i.region)}
        IN x[_aik_name(a, i, k)] * perf_per_ts(P, a, i)
              >= Sum([e \in es |-> y[_aeik_name(a, e, i, k)]], es)

_create_constraints_throughput_per_region(P, y, k) ==
    \A a \in Range(P.system.apps) : \A e \in regions(P) :
        LET ics == {i \in Range(P.system.ics) : _can_send_requests(P, e, i.region)}
        IN (<<a, e>> \in DOMAIN P.workloads /\ ics # {})
              => Sum([i \in ics |-> y[_aeik_name(a, e, i, k)]], ics)
                    = Workload(P, a, e, k)

\* Big number, greater than max Y_aeik
M == 1000000000

\* The deadline constraint with a slip: the latency of the route is left
\* out of the response time.
response_time_without_latency(P, y, z, k) ==
    \A t \in YIndex(P) :
        LET a == t[1]
            e == t[2]
            i == t[3]
            aeik_name == _aeik_name(a, e, i, k)
            latency == P.system.latencies[<<e, i.region>>]
            slo_lu == TimeValue_to(P.system.perfs[<<a, i>>].slo, latency.value.units)
            max_resp_time_lu == TimeValue_to(a.max_resp_time, latency.value.units)
        IN /\ y[aeik_name] <= M * z[aeik_name]
           /\ z[aeik_name] * slo_lu <= max_resp_time_lu

_create_contraints_response_time(P, y, z, k) ==
    \A t \in YIndex(P) :
        LET a == t[1]
            e == t[2]
            i == t[3]
            aeik_name == _aeik_name(a, e, i, k)
            latency == P.system.latencies[<<e, i.region>>]
            slo_lu == TimeValue_to(P.system.perfs[<<a, i>>].slo, latency.value.units)
            max_resp_time_lu == TimeValue_to(a.max_resp_time, latency.value.units)
        IN /\ y[aeik_name] <= M * z[aeik_name]
           /\ z[aeik_name] * (latency.value.value + slo_lu) <= max_resp_time_lu

\* _calculate_resp_time_sec summed over y_names: the requests times the
\* response time of their route, in seconds.
TotalRespTimeSec(P, y) ==
    LET idx == {<<t[1], t[2], t[3], k>> : t \in YIndex(P), k \in Slots(P)}
    IN Sum([t \in idx |->
              resp_time(P.system, t[1], t[2], t[3]).value
                 * y[_aeik_name(t[1], t[2], t[3], t[4])]], idx)

\* The cost expression of the objective of C and of the cost cap of R.
TotalCost(P, x) ==
    LET idx == {<<t[1], t[2], k>> : t \in XIndex(P), k \in Slots(P)}
    IN Sum([t \in idx |->
              x[_aik_name(t[1], t[2], t[3])] * price_per_ts(P, t[2])], idx)

\* EdaropCAllocator._create_constraint_max_avg_resp_time:
\* sum / total_reqs <= max_avg_resp_time in seconds (total_reqs > 0 here).
_create_constraint_max_avg_resp_time(P, y) ==
    LET mart == P.max_avg_resp_time
    IN TotalRespTimeSec(P, y) * mart.den
          <= mart.num * TimeUnit_to(mart.units, "s") * _get_total_reqs(P)

\* The cost cap with a slip: the VMs are counted, their price is left out.
cost_cap_without_price(P, x) == Sum(x, DOMAIN x) <= P.max_cost

\* EdaropRAllocator._create_contraints_cost (max_cost set here).
_create_contraints_cost(P, x) == TotalCost(P, x) <= P.max_cost

(***************************************************************************)
(* The model an allocator hands to the backend, and the backend.           *)
(***************************************************************************)
\* The error solve() raises while it builds the model, None when it builds
\* it: _create_vars, _create_objective and _create_contraints in the order
\* of the code.
BuildError(lp) ==
    LET P == lp.problem
        apps == Range(P.system.apps)
        ics == Range(P.system.ics)
        perfs == DOMAIN P.system.perfs
        \* perfs[a, i] read for a route into an instance class without Performance
        noPerf == \E t \in YIndex(P) : <<t[1], t[3]>> \notin perfs
        \* x_names_app_timeslot[a, k] read for an app no instance class runs
        noX == \E a \in apps : \A i \in ics : <<a, i>> \notin perfs
        \* y_names_app_ic_timeslot[a, i, k] read for a class no region reaches
        noY == \E t \in XIndex(P) :
                  \A e \in regions(P) : ~_can_send_requests(P, e, t[2].region)
    IN IF lp.cls = "R"
       THEN IF noPerf THEN "KeyError"
            ELSE IF _get_total_reqs(P) = 0 THEN "ZeroDivisionError"
            ELSE IF noX \/ noY THEN "KeyError"
            ELSE IF P.max_cost = COST_UNDEFINED THEN "ValueError"
            ELSE None
       ELSE IF noX \/ noY \/ noPerf THEN "KeyError"
            ELSE IF P.max_avg_resp_time # TIME_UNDEFINED /\ _get_total_reqs(P) = 0
                 THEN "ZeroDivisionError"
            ELSE None

\* Cap of an X variable, which has no upper bound in the program: the VMs
\* that serve the largest workload of all the source regions together.
\* Every constraint that bounds X from below is met at or under this cap.
XCap(P, a, i) ==
    LET most == Cardinality(SourceRegions) * MaxReq
        perf == perf_per_ts(P, a, i)
    IN (most + perf - 1) \div perf

\* The values the backend may give the X variables of slot k.
XValues(P, k) ==
    {x \in [x_names_at(P, k) -> 0 .. (Cardinality(SourceRegions) * MaxReq)] :
        \A t \in XIndex(P) : x[_aik_name(t[1], t[2], k)] <= XCap(P, t[1], t[2])}

\* The values of the variables of slot k that satisfy the constraints of
\* _create_contraints of the base class for that slot: <<x, y>> for which
\* some z exists.
SlotFeasible(P, k) ==
    LET ys == {y \in [y_names_at(P, k) -> 0..MaxReq] :
                 /\ _create_constraints_throughput_per_region(P, y, k)
                 /\ \E z \in [y_names_at(P, k) -> {0, 1}] :
                        _create_contraints_response_time(P, y, z, k)}
        xs(y) == {x \in XValues(P, k) :
                    /\ _create_contraints_throughput_per_app(P, x, k)
                    /\ _create_contraints_throughput_per_ic(P, x, y, k)}
    IN UNION {{<<x, y>> : x \in xs(y)} : y \in ys}

RECURSIVE BaseFeasible(_, _)
\* The values <<x, y>> of the variables of slots 0 .. n-1 that satisfy the
\* constraints of the base class.
BaseFeasible(P, n) ==
    IF n = 0 THEN {<< <<>>, <<>> >>}
    ELSE {<<p[1] @@ s[1], p[2] @@ s[2]>> :
             p \in BaseFeasible(P, n - 1), s \in SlotFeasible(P, n - 1)}

\* The constraints with a slip: the cost cap is emitted by C too when
\* max_cost is set.
Feasible_with_cost_cap_in_C(lp) ==
    LET P == lp.problem
    IN {s \in BaseFeasible(P, workload_len(P)) :
          IF lp.cls = "R" THEN _create_contraints_cost(P, s[1])
          ELSE /\ P.max_cost # COST_UNDEFINED => _create_contraints_cost(P, s[1])
               /\ P.max_avg_resp_time # TIME_UNDEFINED
                     => _create_constraint_max_avg_resp_time(P, s[2])}

\* _create_contraints of the two classes: the assignments that satisfy every
\* constraint of the model.
Feasible(lp) ==
    LET P == lp.problem
    IN {s \in BaseFeasible(P, workload_len(P)) :
          IF lp.cls = "R" THEN _create_contraints_cost(P, s[1])
          ELSE P.max_avg_resp_time # TIME_UNDEFINED
                  => _create_constraint_max_avg_resp_time(P, s[2])}

\* The objectives with a slip in the one of C: the VMs are counted, their
\* price is left out.
objective_without_price(lp, s) ==
    IF lp.cls = "R" THEN TotalRespTimeSec(lp.problem, s[2])
    ELSE Sum(s[1], DOMAIN s[1])

\* _create_objective of the two classes.  The objective of R is the total
\* response time divided by the positive constant _get_total_reqs: the
\* numerator orders the assignments as the quotient does.
_create_objective(lp, s) ==
    IF lp.cls = "R" THEN TotalRespTimeSec(lp.problem, s[2])
    ELSE TotalCost(lp.problem, s[1])

\* The assignments of F with the least objective.
Optimal(lp, F) ==
    LET vals == {_create_objective(lp, s) : s \in F}
        best == CHOOSE v \in vals : \A w \in vals : v <= w
    IN {s \in F : _create_objective(lp, s) = best}

\* What lp_problem.solve does: it raises PulpSolverError (the values of the
\* variables stay unset: the record carries placeholders nothing reads), or
\* it sets status, sol_status and the values.
\* A proven optimum is a best assignment, a solution found before a limit
\* is any assignment that satisfies the constraints, infeasibility is
\* reported only of a model nothing satisfies.
NoValues(P) == <<[n \in x_names(P) |-> 0], [n \in y_names(P) |-> 0]>>

BackendOutcomes(lp) ==
    LET F == Feasible(lp)
        O == Optimal(lp, F)
        P == lp.problem
    IN {[raised |-> TRUE, status |-> None, sol_status |-> None, values |-> NoValues(P), bestBound |-> "bestBound"]}
       \cup {[raised |-> FALSE, status |-> "LpStatusOptimal",
              sol_status |-> "LpSolutionOptimal", values |-> s, bestBound |-> "bestBound"] : s \in O}
       \cup {[raised |-> FALSE, status |-> "LpStatusOptimal",
              sol_status |-> "LpSolutionIntegerFeasible", values |-> s, bestBound |-> "bestBound"] : s \in F}
       \cup {[raised |-> FALSE, status |-> st, sol_status |-> "LpSolutionNoSolutionFound",
              values |-> NoValues(P), bestBound |-> "bestBound"] :
                st \in {"LpStatusNotSolved", "LpStatusUndefined", "LpStatusUnbounded"}}
       \cup IF F = {}
            THEN {[raised |-> FALSE, status |-> "LpStatusInfeasible",
                   sol_status |-> "LpSolutionInfeasible", values |-> NoValues(P), bestBound |-> "bestBound"]}
            ELSE {}

\* pulp_to_edarop_status with a slip: the status of the solution is not
\* looked at.
pulp_to_edarop_status_of_problem_only(pulp_problem_status, pulp_solution_status) ==
    IF pulp_problem_status = "LpStatusInfeasible" THEN "INFEASIBLE"
    ELSE IF pulp_problem_status = "LpStatusNotSolved" THEN "ABORTED"
    ELSE IF pulp_problem_status = "LpStatusOptimal" THEN "OPTIMAL"
    ELSE IF pulp_problem_status = "LpStatusUndefined" THEN "INTEGER_INFEASIBLE"
    ELSE "UNKNOWN"

\* pulp_to_edarop_status: the Status of the codes LpProblem.status and
\* LpProblem.sol_status.
pulp_to_edarop_status(pulp_problem_status, pulp_solution_status) ==
    IF pulp_problem_status = "LpStatusInfeasible" THEN "INFEASIBLE"
    ELSE IF pulp_problem_status = "LpStatusNotSolved" THEN "ABORTED"
    ELSE IF pulp_problem_status = "LpStatusOptimal"
         THEN IF pulp_solution_status = "LpSolutionOptimal" THEN "OPTIMAL"
              ELSE "INTEGER_FEASIBLE"
    ELSE IF pulp_problem_status = "LpStatusUndefined" THEN "INTEGER_INFEASIBLE"
    ELSE "UNKNOWN"

FeasibleStatus == {"OPTIMAL", "INTEGER_FEASIBLE"}

\* __solve_problem: the SolvingStats of a backend outcome (the wall clock
\* times are left out).
__solve_problem(out) ==
    LET status == IF out.raised THEN "CBC_ERROR"
                  ELSE pulp_to_edarop_status(out.status, out.sol_status)
    IN [status |-> status,
        lower_bound |-> IF status = "INTEGER_FEASIBLE" THEN out.bestBound ELSE None]

(***************************************************************************)
(* Decoding.                                                               *)
(***************************************************************************)
\* _get_valid_reqs on an integer value.
_get_valid_reqs(reqs) ==
    IF reqs = 0 THEN 0 ELSE IF reqs > 0 THEN reqs ELSE "ValueError"

\* _get_alloc: the TimeSlotAllocation of a slot.
_get_alloc(P, values, time_slot) ==
    LET x == values[1]
        y == values[2]
        reqKeys == {t \in YIndex(P) : <<t[1], t[3]>> \in XIndex(P)}
    IN [ics |-> [t \in XIndex(P) |-> x[_aik_name(t[1], t[2], time_slot)]],
        reqs |-> [t \in reqKeys |->
                    _get_valid_reqs(y[_aeik_name(t[1], t[2], t[3], time_slot)])]]

\* _log_var raises TypeError when it compares an unset value with 0.
_log_solution_raises(P, out) ==
    out.raised /\ (x_names(P) \cup y_names(P) \cup z_names(P)) # {}

\* _compose_solution, after _log_solution did not raise.
_compose_solution(P, out, solving_stats) ==
    [problem |-> P,
     alloc |-> IF solving_stats.status \notin FeasibleStatus THEN <<>>
               ELSE [n \in 1..workload_len(P) |-> _get_alloc(P, out.values, n - 1)],
     solving_stats |-> solving_stats]

(***************************************************************************)
(* SolutionAnalyzer (analysis.py).                                         *)
(***************************************************************************)
\* SolutionAnalyzer.cost of a solution with feasible status.
cost(sol) ==
    LET P == sol.problem
        idx == UNION {{<<k, t>> : t \in DOMAIN sol.alloc[k].ics} :
                         k \in 1..workload_len(P)}
    IN Sum([t \in idx |->
              sol.alloc[t[1]].ics[t[2]]
                 * TimeRatioValue_to(t[2][2].price, time_slot_unit(P))], idx)

\* The items of alloc.reqs of every slot k in range(workload_len), as the
\* loops of the analyzer visit them: <<slot number, (app, region, ic)>>.
ReqsIndex(sol) ==
    UNION {{<<k, t>> : t \in DOMAIN sol.alloc[k].reqs} :
              k \in 1..workload_len(sol.problem)}

\* The two sums of SolutionAnalyzer.avg_resp_time.
total_resp_time(sol) ==
    LET P == sol.problem
        idx == ReqsIndex(sol)
    IN Sum([t \in idx |->
              sol.alloc[t[1]].reqs[t[2]]
                 * TimeValue_to(resp_time(P.system, t[2][1], t[2][2], t[2][3]), "s")], idx)

total_reqs(sol) ==
    LET P == sol.problem
        idx == ReqsIndex(sol)
    IN Sum([t \in idx |-> sol.alloc[t[1]].reqs[t[2]]], idx)

\* SolutionAnalyzer.avg_resp_time of a solution with feasible status: the
\* quotient total_resp_time / total_reqs seconds, kept as a fraction.
avg_resp_time(sol) ==
    IF total_reqs(sol) = 0 THEN [num |-> 0, den |-> 1, units |-> "s"]
    ELSE [num |-> total_resp_time(sol), den |-> total_reqs(sol), units |-> "s"]

\* The route of an item of alloc.reqs misses the deadline of its app.
Missed(sol, t) ==
    TimeValue_to(resp_time(sol.problem.system, t[1], t[2], t[3]), "s")
        > TimeValue_to(t[1].max_resp_time, "s")

\* SolutionAnalyzer.deadline_miss_rate of a solution with feasible status
\* and a positive number of requests: total_missed_reqs / total_reqs, kept
\* as a fraction.
deadline_miss_rate(sol) ==
    LET idx == ReqsIndex(sol)
        missed == {t \in idx : Missed(sol, t[2])}
    IN [num |-> Sum([t \in missed |-> sol.alloc[t[1]].reqs[t[2]]], missed),
        den |-> total_reqs(sol)]

\* SolutionAnalyzer.total_reqs_per_app: an entry for every app that has an
\* item in some alloc.reqs.
total_reqs_per_app(sol) ==
    LET idx == ReqsIndex(sol)
        apps == {t[2][1] : t \in idx}
    IN [a \in apps |->
          LET of_a == {t \in idx : t[2][1] = a}
          IN Sum([t \in of_a |-> sol.alloc[t[1]].reqs[t[2]]], of_a)]

\* SolutionAnalyzer.total_missed_reqs_per_app: an entry for every app that
\* has an item with requests in some alloc.reqs.
total_missed_reqs_per_app(sol) ==
    LET idx == {t \in ReqsIndex(sol) : sol.alloc[t[1]].reqs[t[2]] # 0}
        apps == {t[2][1] : t \in idx}
    IN [a \in apps |->
          LET of_a == {t \in idx : t[2][1] = a /\ Missed(sol, t[2])}
          IN Sum([t \in of_a |-> sol.alloc[t[1]].reqs[t[2]]], of_a)]

\* SolutionAnalyzer.miss_rate_per_app: for every app of the system the
\* quotient of the two dictionaries above, kept as a fraction, or 0.
miss_rate_per_app(sol) ==
    LET miss_reqs_per_app == total_missed_reqs_per_app(sol)
        reqs_per_app == total_reqs_per_app(sol)
    IN [a \in Range(sol.problem.system.apps) |->
          IF a \in DOMAIN miss_reqs_per_app
          THEN [num |-> miss_reqs_per_app[a], den |-> reqs_per_app[a]]
          ELSE [num |-> 0, den |-> 1]]

\* The operations of SolutionAnalyzer and how a call of one ends: with a
\* value or with an error.  cost, avg_resp_time and deadline_miss_rate
\* test the status first; the three per-app operations index
\* time_slot_allocs[k] for every k in range(workload_len) without a test.
AnalyzerOps == {"cost", "avg_resp_time", "deadline_miss_rate",
                "total_reqs_per_app", "total_missed_reqs_per_app",
                "miss_rate_per_app"}

Value(op, v) == [kind |-> "value", op |-> op, value |-> v]
Failed(op, err) == [kind |-> "error", op |-> op, error |-> err]

SolutionAnalyzer(op, sol) ==
    IF op \in {"cost", "avg_resp_time", "deadline_miss_rate"}
    THEN IF sol.solving_stats.status \notin FeasibleStatus
         THEN Failed(op, "ValueError")
         ELSE IF op = "cost" THEN Value(op, cost(sol))
         ELSE IF op = "avg_resp_time" THEN Value(op, avg_resp_time(sol))
         ELSE IF total_reqs(sol) = 0 THEN Failed(op, "ZeroDivisionError")
         ELSE Value(op, deadline_miss_rate(sol))
    ELSE IF Len(sol.alloc) < workload_len(sol.problem)
         THEN Failed(op, "IndexError")
         ELSE IF op = "total_reqs_per_app" THEN Value(op, total_reqs_per_app(sol))
         ELSE IF op = "total_missed_reqs_per_app"
              THEN Value(op, total_missed_reqs_per_app(sol))
         ELSE Value(op, miss_rate_per_app(sol))

(***************************************************************************)
(* The greedy cost allocator (simple_allocator.py).                        *)
(***************************************************************************)
\* Comparison of two rates or prices given per different time units:
\* v1 per u1 <= v2 per u2.
RateLeq(r1, r2) ==
    r1.value * conversion_factors[r2.units] <= r2.value * conversion_factors[r1.units]

\* ic.price / perfs[app, ic].value, the price of one request, as a fraction.
dollar_per_req(P, app, ic) ==
    LET price == ic.price
        perf == P.system.perfs[<<app, ic>>].value
    IN [num |-> price.value * conversion_factors[perf.units],
        den |-> perf.value * conversion_factors[price.units]]

\* InstanceChooser.cheapest_ics: the instance classes of the least price
\* per request, in the order of the catalog.  It reads perfs[app, ic] of
\* every instance class of the catalog.
cheapest_ics(P, app) ==
    LET ics == P.system.ics
        Cheapest(ic) ==
            \A j \in Range(ics) :
                dollar_per_req(P, app, ic).num * dollar_per_req(P, app, j).den
                    <= dollar_per_req(P, app, j).num * dollar_per_req(P, app, ic).den
    IN SelectSeq(ics, Cheapest)

\* InstanceChooser.response_time, in seconds.
response_time(P, src_reg, ic, app) ==
    TimeValue_to(P.system.latencies[<<src_reg, ic.region>>].value, "s")
        + TimeValue_to(P.system.perfs[<<app, ic>>].slo, "s")

\* The instance classes of ics that fastest_ics puts in ic_resp_times: the
\* ones with a latency from src_reg.
Reachable(P, src_reg, ics) ==
    LET HasLatency(ic) == <<src_reg, ic.region>> \in DOMAIN P.system.latencies
    IN SelectSeq(ics, HasLatency)

\* InstanceChooser.fastest_ics (ic_resp_times not empty): the reachable
\* instance classes of the least response time, in the order of ics.
fastest_ics(P, src_reg, ics, app) ==
    LET reachable == Reachable(P, src_reg, ics)
        Fastest(ic) ==
            \A j \in Range(reachable) :
                response_time(P, src_reg, ic, app) <= response_time(P, src_reg, j, app)
    IN SelectSeq(reachable, Fastest)

\* InstanceChooser.smallest_ic with a slip: the last of ics among those
\* of the least price.
smallest_ic_last(ics) ==
    LET least(n) == \A m \in DOMAIN ics : RateLeq(ics[n].price, ics[m].price)
        n == CHOOSE n \in DOMAIN ics :
                least(n) /\ \A m \in (n + 1)..Len(ics) : ~least(m)
    IN ics[n]

\* InstanceChooser.smallest_ic: min(ics, key = price), the first of ics
\* among those of the least price.
smallest_ic(ics) ==
    LET least(n) == \A m \in DOMAIN ics : RateLeq(ics[n].price, ics[m].price)
        n == CHOOSE n \in DOMAIN ics :
                least(n) /\ \A m \in 1..(n - 1) : ~least(m)
    IN ics[n]

\* How InstanceChooser.smallest_fastest_cheapest_ic ends: KeyError when the
\* app has no Performance on some instance class of the catalog,
\* ValueError (min of an empty sequence) when no cheapest instance class
\* has a latency from src_reg, else it returns.
ChooserError(P, app, src_reg) ==
    IF \E ic \in Range(P.system.ics) : <<app, ic>> \notin DOMAIN P.system.perfs
    THEN "KeyError"
    ELSE IF Reachable(P, src_reg, cheapest_ics(P, app)) = <<>> THEN "ValueError"
    ELSE None

smallest_fastest_cheapest_ic(P, app, src_reg) ==
    smallest_ic(fastest_ics(P, src_reg, cheapest_ics(P, app), app))

\* The (app, region) pairs that compute_wl_ic_app visits: the ones with a
\* workload.
WorkloadPairs(P) ==
    {t \in Range(P.system.apps) \X regions(P) : t \in DOMAIN P.workloads}

\* SimpleCostAllocator.compute_wl_ic_app (every instance class chosen):
\* reqs, the requests per (app, region, chosen instance class), and
\* wl_ic_app, their sum over the regions per (app, instance class).
compute_reqs(P, time_slot) ==
    LET keys == {<<t[1], t[2], smallest_fastest_cheapest_ic(P, t[1], t[2])>> :
                    t \in WorkloadPairs(P)}
    IN [t \in keys |-> Workload(P, t[1], t[2], time_slot)]

compute_wl_ic_app(P, time_slot) ==
    LET reqs == compute_reqs(P, time_slot)
        keys == {<<t[1], t[3]>> : t \in DOMAIN reqs}
    IN [u \in keys |->
          LET from == {t \in DOMAIN reqs : t[1] = u[1] /\ t[3] = u[2]}
          IN Sum([t \in from |-> reqs[t]], from)]

\* SimpleCostAllocator.compute_alloc_time_slot with a slip: the VMs are
\* counted per source region, one ceiling for each, and added.
compute_alloc_time_slot_per_source(P, time_slot) ==
    LET wl_ic_app == compute_wl_ic_app(P, time_slot)
        reqs == compute_reqs(P, time_slot)
        used == {u \in DOMAIN wl_ic_app : wl_ic_app[u] > 0}
    IN [ics |-> [u \in used |->
                    LET perf_ts == perf_per_ts(P, u[1], u[2])
                        from == {t \in DOMAIN reqs : t[1] = u[1] /\ t[3] = u[2]}
                    IN Sum([t \in from |-> (reqs[t] + perf_ts - 1) \div perf_ts], from)],
        reqs |-> reqs]

\* SimpleCostAllocator.compute_alloc_time_slot: ceil(wl / perf_ts) VMs for
\* every (app, instance class) with wl > 0.
compute_alloc_time_slot(P, time_slot) ==
    LET wl_ic_app == compute_wl_ic_app(P, time_slot)
        used == {u \in DOMAIN wl_ic_app : wl_ic_app[u] > 0}
    IN [ics |-> [u \in used |->
                    LET perf_ts == perf_per_ts(P, u[1], u[2])
                    IN (wl_ic_app[u] + perf_ts - 1) \div perf_ts],
        reqs |-> compute_reqs(P, time_slot)]

\* How SimpleCostAllocator.solve ends when it raises: with the error of the
\* chooser for the first app, in the order of the system, that has a
\* workload pair for which the chooser fails (all the failing pairs of one
\* app fail alike when a Performance is missing); None when it returns.
GreedyError(P) ==
    LET apps == P.system.apps
        fails(n) == \E t \in WorkloadPairs(P) :
                       t[1] = apps[n] /\ ChooserError(P, t[1], t[2]) # None
    IN IF \A n \in DOMAIN apps : ~fails(n) THEN None
       ELSE LET n == CHOOSE n \in DOMAIN apps : fails(n) /\ \A m \in 1..(n - 1) : ~fails(m)
                t == CHOOSE t \in WorkloadPairs(P) :
                        t[1] = apps[n] /\ ChooserError(P, t[1], t[2]) # None
            IN ChooserError(P, t[1], t[2])

\* SimpleCostAllocator.solve when it returns: one allocation per time slot,
\* status OPTIMAL, the other statistics without meaning.
SimpleCostAllocator_solve(P) ==
    [problem |-> P,
     alloc |-> [n \in 1..workload_len(P) |-> compute_alloc_time_slot(P, n - 1)],
     solving_stats |-> [status |-> "OPTIMAL", lower_bound |-> "0.0"]]

(***************************************************************************)
(* One call of solve().                                                    *)
(***************************************************************************)
VARIABLES
    problem,       \* the Problem the allocator was constructed with
    allocator,     \* its class: "C", "R", "CR" (C then R), "RC" (R then C)
                   \* or "Greedy" (SimpleCostAllocator)
    pc,            \* "start": solve() of lp entered; "built": the model is
                   \* built and handed to the backend; "first": the first
                   \* sub-solve of a two-stage allocator returned; "done";
                   \* "analyzed": an operation of the analyzer was applied
    stage,         \* 1, or 2 in the second sub-solve of a two-stage allocator
    lp,            \* the single-stage allocator at work: class and problem
    stats,         \* the SolvingStats of the last backend call of lp
    first,         \* the Solution of the first sub-solve as the rest of solve()
                   \* and the analyzer see it (Measured), Nothing before
    result,        \* what solve() returned or raised, Nothing while it runs
    backendCalls,  \* number of calls of lp_problem.solve so far
    analysis,      \* how the operation of SolutionAnalyzer applied to the
                   \* returned Solution ended, Nothing before
    fs             \* the files on disk: name -> lines (what _solve_CBC_patched
                   \* and the backend process write and delete)

vars == <<problem, allocator, pc, stage, lp, stats, first, result, backendCalls,
          analysis, fs>>

\* No file on disk.
NoFiles == <<>>

\* The MILP allocators.
Allocators == {"C", "R", "CR", "RC"}

\* The class of the first (or only) single-stage allocator.
FirstClass(alloc) == IF alloc \in {"C", "CR"} THEN "C" ELSE "R"

Returned(sol) == [kind |-> "solution", sol |-> sol]
Raised(err) == [kind |-> "error", error |-> err]
Nothing == [kind |-> "none"]

\* A Solution reduced to what the two-stage allocators read of their first
\* solution: the statistics and the measure of the analyzer, cost() for
\* C then R and avg_resp_time() for R then C (both kept; the allocation is
\* not read again).  The analyzer measures only a feasible status.
Measured(sol) ==
    LET ok == sol.solving_stats.status \in FeasibleStatus
    IN [kind |-> "solution",
        solving_stats |-> sol.solving_stats,
        cost |-> IF ok THEN cost(sol) ELSE COST_UNDEFINED,
        avg_resp_time |-> IF ok THEN avg_resp_time(sol) ELSE TIME_UNDEFINED]
NoStats == [status |-> None, lower_bound |-> None]

Init ==
    /\ problem \in Problems
    /\ allocator \in Allocators
    /\ pc = "start"
    /\ stage = 1
    /\ lp = [cls |-> FirstClass(allocator), problem |-> problem]
    /\ stats = NoStats
    /\ first = Nothing
    /\ result = Nothing
    /\ backendCalls = 0
    /\ analysis = Nothing
    /\ fs = NoFiles

\* EdaropAllocator.solve up to the call of __solve_problem: the model is
\* built, or building it raises and the error leaves solve().
CreateModel ==
    /\ pc = "start"
    /\ allocator \in Allocators
    /\ LET err == BuildError(lp)
       IN IF err # None
          THEN /\ pc' = "done"
               /\ result' = Raised(err)
          ELSE /\ pc' = "built"
               /\ result' = result
    /\ UNCHANGED <<problem, allocator, stage, lp, stats, first, backendCalls, analysis, fs>>

\* EdaropCRAllocator.solve and EdaropRCAllocator.solve after the second
\* sub-solve: the solution of the second with the statistics combined (the
\* times are left out, the other fields are those of the second).
Combined(sol) ==
    [problem |-> sol.problem, alloc |-> sol.alloc,
     solving_stats |-> [status |-> sol.solving_stats.status,
                        lower_bound |-> sol.solving_stats.lower_bound]]

\* The backend answers: __solve_problem maps the answer to a status,
\* _compose_solution logs and decodes it, and solve() of lp returns.
SolveProblem ==
    /\ pc = "built"
    /\ \E out \in BackendOutcomes(lp) :
          LET solving_stats == __solve_problem(out)
              sol == _compose_solution(lp.problem, out, solving_stats)
          IN /\ stats' = solving_stats
             /\ IF _log_solution_raises(lp.problem, out)
                THEN /\ pc' = "done"
                     /\ result' = Raised("TypeError")
                     /\ first' = first
                ELSE IF allocator \in {"C", "R"}
                THEN /\ pc' = "done"
                     /\ result' = Returned(sol)
                     /\ first' = first
                ELSE IF stage = 1
                THEN /\ pc' = "first"
                     /\ result' = result
                     /\ first' = Measured(sol)
                ELSE /\ pc' = "done"
                     /\ result' = Returned(Combined(sol))
                     /\ first' = first
    /\ backendCalls' = backendCalls + 1
    /\ UNCHANGED <<problem, allocator, stage, lp, analysis, fs>>

\* The step between the two sub-solves with a slip: the status of the
\* first Solution is not looked at and what was measured, defined or not,
\* becomes the bound of the second Problem.
SecondStageUnchecked ==
    /\ pc = "first"
    /\ pc' = "start"
    /\ stage' = 2
    /\ stats' = NoStats
    /\ result' = result
    /\ lp' = IF allocator = "CR"
             THEN [cls |-> "R",
                   problem |-> [system |-> problem.system,
                                workloads |-> problem.workloads,
                                max_cost |-> first.cost,
                                max_avg_resp_time |-> TIME_UNDEFINED]]
             ELSE [cls |-> "C",
                   problem |-> [system |-> problem.system,
                                workloads |-> problem.workloads,
                                max_cost |-> problem.max_cost,
                                max_avg_resp_time |-> first.avg_resp_time]]
    /\ UNCHANGED <<problem, allocator, first, backendCalls, analysis, fs>>

\* EdaropCRAllocator.solve and EdaropRCAllocator.solve between the two
\* sub-solves: the analyzer measures the first solution (it raises
\* ValueError on a status that is not feasible), the derived Problem is
\* constructed and the second allocator enters its solve().
SecondStage ==
    /\ pc = "first"
    /\ IF first.solving_stats.status \notin FeasibleStatus
       THEN /\ pc' = "done"
            /\ result' = Raised("ValueError")
            /\ UNCHANGED <<stage, lp, stats>>
       ELSE /\ pc' = "start"
            /\ stage' = 2
            /\ stats' = NoStats
            /\ result' = result
            /\ lp' = IF allocator = "CR"
                     THEN [cls |-> "R",
                           problem |-> [system |-> problem.system,
                                        workloads |-> problem.workloads,
                                        max_cost |-> first.cost,
                                        max_avg_resp_time |-> TIME_UNDEFINED]]
                     ELSE [cls |-> "C",
                           problem |-> [system |-> problem.system,
                                        workloads |-> problem.workloads,
                                        max_cost |-> problem.max_cost,
                                        max_avg_resp_time |-> first.avg_resp_time]]
    /\ UNCHANGED <<problem, allocator, first, backendCalls, analysis, fs>>

Next == CreateModel \/ SolveProblem \/ SecondStage

Spec == Init /\ [][Next]_vars

(***************************************************************************)
(* The greedy allocator and the analyzer: solve() of SimpleCostAllocator,  *)
(* or of C, and then one operation of SolutionAnalyzer on the Solution.    *)
(***************************************************************************)
\* The catalog of the greedy allocator is drawn from four instance classes:
\* g1 and g2 in r1 and g3 in r2 cost the same per request, g4 in r2 costs
\* more; g2 and g3 have the least price.  From r2 the response times of g1,
\* g2 and g3 are equal (80 + 10 = 1 + 89 s).
g1 == [name |-> "g1", price |-> [value |-> 2, units |-> "h"], region |-> "r1"]
g2 == [name |-> "g2", price |-> [value |-> 1, units |-> "h"], region |-> "r1"]
g3 == [name |-> "g3", price |-> [value |-> 1, units |-> "h"], region |-> "r2"]
g4 == [name |-> "g4", price |-> [value |-> 2, units |-> "h"], region |-> "r2"]

GreedyPerf ==
    (g1 :> [value |-> [value |-> 2, units |-> "h"], slo |-> [value |-> 10, units |-> "s"]])
    @@ (g2 :> [value |-> [value |-> 1, units |-> "h"], slo |-> [value |-> 10, units |-> "s"]])
    @@ (g3 :> [value |-> [value |-> 1, units |-> "h"], slo |-> [value |-> 89, units |-> "s"]])
    @@ (g4 :> [value |-> [value |-> 1, units |-> "h"], slo |-> [value |-> 10, units |-> "s"]])

\* Catalogs of one to three of them, in every order.
GreedyCatalogs ==
    {c \in UNION {[1..n -> {g1, g2, g3, g4}] : n \in 1..3} :
        \A m, n \in DOMAIN c : m # n => c[m] # c[n]}

\* Latencies of the routes of these systems, in seconds.
GreedyRouteLatency ==
    RouteLatency @@ (<<"r3", "r2">> :> 100) @@ (<<"r2", "r2">> :> 1)

\* The systems: the app has a Performance on every instance class or on
\* all but one; any set of routes into the regions of the catalog.
GreedySystems ==
    UNION { { [apps |-> AppsOf([value |-> 90, units |-> "s"]),
               ics |-> c,
               perfs |-> [t \in {AppsOf([value |-> 90, units |-> "s"])[1]} \X with
                             |-> GreedyPerf[t[2]]],
               latencies |-> [r \in routes |->
                                [value |-> [value |-> GreedyRouteLatency[r],
                                            units |-> "s"]]]] :
              with \in {Range(c)} \cup {Range(c) \ {ic} : ic \in Range(c)},
              routes \in SUBSET {r \in DOMAIN GreedyRouteLatency :
                                   \E ic \in Range(c) : ic.region = r[2]} } :
            c \in GreedyCatalogs }

GreedyProblems ==
    {[system |-> sys, workloads |-> wl,
      max_cost |-> COST_UNDEFINED, max_avg_resp_time |-> TIME_UNDEFINED] :
        sys \in GreedySystems, wl \in WorkloadsOf(AppsOf([value |-> 90, units |-> "s"])[1])}

\* The problems given to C here: the ones with one instance class.
AnalysisProblems == {P \in Problems : Len(P.system.ics) = 1}

InitAnalysis ==
    /\ \/ allocator = "Greedy" /\ problem \in GreedyProblems
       \/ allocator = "C" /\ problem \in AnalysisProblems
    /\ pc = "start"
    /\ stage = 1
    /\ lp = [cls |-> allocator, problem |-> problem]
    /\ stats = NoStats
    /\ first = Nothing
    /\ result = Nothing
    /\ backendCalls = 0
    /\ analysis = Nothing
    /\ fs = NoFiles

\* SimpleCostAllocator.solve: it returns a Solution or the chooser raises.
GreedySolve ==
    /\ pc = "start"
    /\ allocator = "Greedy"
    /\ pc' = "done"
    /\ result' = IF GreedyError(problem) # None THEN Raised(GreedyError(problem))
                 ELSE Returned(SimpleCostAllocator_solve(problem))
    /\ UNCHANGED <<problem, allocator, stage, lp, stats, first, backendCalls, analysis, fs>>

\* One operation of SolutionAnalyzer applied to the Solution solve() returned.
Analyze ==
    /\ pc = "done"
    /\ result.kind = "solution"
    /\ \E op \in AnalyzerOps : analysis' = SolutionAnalyzer(op, result.sol)
    /\ pc' = "analyzed"
    /\ UNCHANGED <<problem, allocator, stage, lp, stats, first, result, backendCalls, fs>>

NextAnalysis == CreateModel \/ SolveProblem \/ GreedySolve \/ Analyze

SpecAnalysis == InitAnalysis /\ [][NextAnalysis]_vars

(***************************************************************************)
(* Construction of System and Problem (model.py): the validation of their  *)
(* __post_init__.  The entries of a sequence are objects: the field id is  *)
(* the identity of the object (what id() returns), the other fields are    *)
(* its value, which the == of the frozen dataclasses compares.             *)
(***************************************************************************)
\* Longest sequence of apps or of instance classes given to System.
MaxEntries == 2
\* Largest number of workloads given to Problem.
MaxWorkloads == 3

\* App objects: 1 and 2 are equal by value and made one by one, 3 has the
\* name of 1 and another deadline, 4 has another name.
AppObjects ==
    {[id |-> 1, name |-> "a0", max_resp_time |-> [value |-> 90, units |-> "s"]],
     [id |-> 2, name |-> "a0", max_resp_time |-> [value |-> 90, units |-> "s"]],
     [id |-> 3, name |-> "a0", max_resp_time |-> [value |-> 2, units |-> "m"]],
     [id |-> 4, name |-> "a1", max_resp_time |-> [value |-> 90, units |-> "s"]]}

\* Region objects: 1 and 2 are equal by value and made one by one.
RegionObject(n) == [id |-> n, name |-> IF n \in {1, 2} THEN "r1" ELSE "r2"]

\* InstanceClass objects: 1 and 2 are equal by value; 3 sits in the Region
\* object of 1; 4 sits in a Region object equal by value to the one of 1;
\* 5 sits in another region.
InstanceClassObjects ==
    {[id |-> 1, name |-> "i1", price |-> [value |-> 1, units |-> "h"], region |-> RegionObject(1)],
     [id |-> 2, name |-> "i1", price |-> [value |-> 1, units |-> "h"], region |-> RegionObject(1)],
     [id |-> 3, name |-> "i2", price |-> [value |-> 1, units |-> "h"], region |-> RegionObject(1)],
     [id |-> 4, name |-> "i3", price |-> [value |-> 1, units |-> "h"], region |-> RegionObject(2)],
     [id |-> 5, name |-> "i4", price |-> [value |-> 1, units |-> "h"], region |-> RegionObject(3)]}

\* The sequences over S of at most n entries.
SeqsUpTo(S, n) == UNION {[1..m -> S] : m \in 0..n}

\* Arguments of System(apps, ics, perfs, latencies); perfs and latencies
\* are not looked at by __post_init__.
SystemArgs ==
    {[apps |-> apps, ics |-> ics, perfs |-> <<>>, latencies |-> <<>>] :
        apps \in SeqsUpTo(AppObjects, MaxEntries),
        ics \in SeqsUpTo(InstanceClassObjects, MaxEntries)}

\* Workload objects: one or two slots, slot unit hour or second.
WorkloadObjects ==
    {[values |-> v, time_unit |-> u] : v \in {<<0>>, <<0, 0>>}, u \in {"h", "s"}}

\* The workloads mapping given to Problem, in the order of its entries:
\* entry number n has the key (a0, source region number n).
WorkloadArgs ==
    UNION { {[n \in 1..m |-> [key |-> <<"a0", n>>, workload |-> w[n]]] :
                w \in [1..m -> WorkloadObjects]} : m \in 0..MaxWorkloads }

\* System.__check_uniq_names with a slip: the entries are compared by
\* value instead of by identity.
check_uniq_names_by_value(list_with_names) ==
    IF \E i \in DOMAIN list_with_names :
         \E j \in (i + 1)..Len(list_with_names) :
            /\ list_with_names[i].name = list_with_names[j].name
            /\ [list_with_names[i] EXCEPT !.id = 0] # [list_with_names[j] EXCEPT !.id = 0]
    THEN "ValueError" ELSE None

\* System.__check_uniq_names: ValueError when an entry and a later entry
\* have the same name and are not the same object.
__check_uniq_names(list_with_names) ==
    IF \E i \in DOMAIN list_with_names :
         \E j \in (i + 1)..Len(list_with_names) :
            /\ list_with_names[i].name = list_with_names[j].name
            /\ list_with_names[i].id # list_with_names[j].id
    THEN "ValueError" ELSE None

\* System.__post_init__: the apps, the instance classes, then the list of
\* the regions of the instance classes (one entry per instance class).
System_post_init(sys) ==
    LET regs == [n \in DOMAIN sys.ics |-> sys.ics[n].region]
    IN IF __check_uniq_names(sys.apps) # None THEN "ValueError"
       ELSE IF __check_uniq_names(sys.ics) # None THEN "ValueError"
       ELSE __check_uniq_names(regs)

\* Problem.__check_all_workloads_same_units: every workload after the
\* first has the slot unit of the first.
__check_all_workloads_same_units(workloads) ==
    IF Len(workloads) = 0 THEN None
    ELSE IF \A n \in 2..Len(workloads) :
              workloads[n].workload.time_unit = workloads[1].workload.time_unit
         THEN None ELSE "ValueError"

\* Problem.__check_all_workloads_same_len with a slip: only the second
\* workload is compared with the first.
same_len_of_the_first_two(workloads) ==
    IF Len(workloads) < 2 THEN None
    ELSE IF Len(workloads[2].workload.values) = Len(workloads[1].workload.values)
         THEN None ELSE "ValueError"

\* Problem.__check_all_workloads_same_len: every workload after the first
\* has the number of slots of the first.
__check_all_workloads_same_len(workloads) ==
    IF Len(workloads) = 0 THEN None
    ELSE IF \A n \in 2..Len(workloads) :
              Len(workloads[n].workload.values) = Len(workloads[1].workload.values)
         THEN None ELSE "ValueError"

\* Problem.__post_init__: the units, then the lengths.
Problem_post_init(workloads) ==
    IF __check_all_workloads_same_units(workloads) # None THEN "ValueError"
    ELSE __check_all_workloads_same_len(workloads)

\* Problem.workload_len of a constructed Problem: the number of slots of
\* the first workload; indexing the empty list raises.
Problem_workload_len(workloads) ==
    IF Len(workloads) = 0 THEN Failed("workload_len", "IndexError")
    ELSE Value("workload_len", Len(workloads[1].workload.values))

\* Problem.time_slot_unit of a constructed Problem: the slot unit of the
\* first workload; indexing the empty list raises.
Problem_time_slot_unit(workloads) ==
    IF Len(workloads) = 0 THEN Failed("time_slot_unit", "IndexError")
    ELSE Value("time_slot_unit", workloads[1].workload.time_unit)

\* What the constructors are called with: every System with one mapping of
\* two workloads, and every mapping with one System.
ConstructorArgs ==
    {[system |-> sys,
      workloads |-> CHOOSE w \in WorkloadArgs :
                       Len(w) = 2 /\ w[1].workload = w[2].workload] :
        sys \in SystemArgs}
    \cup {[system |-> CHOOSE sys \in SystemArgs : Len(sys.apps) = 0 /\ Len(sys.ics) = 0,
           workloads |-> w] : w \in WorkloadArgs}

InitConstruction ==
    /\ problem \in ConstructorArgs
    /\ allocator = None
    /\ pc = "new"
    /\ stage = 1
    /\ lp = [cls |-> None, problem |-> problem]
    /\ stats = NoStats
    /\ first = Nothing
    /\ result = Nothing
    /\ backendCalls = 0
    /\ analysis = Nothing
    /\ fs = NoFiles

\* System(apps, ics, perfs, latencies): the object, or the error of
\* __post_init__.
NewSystem ==
    /\ pc = "new"
    /\ pc' = "system"
    /\ result' = IF System_post_init(problem.system) # None
                 THEN Raised(System_post_init(problem.system))
                 ELSE [kind |-> "system"]
    /\ UNCHANGED <<problem, allocator, stage, lp, stats, first, backendCalls, analysis, fs>>

\* Problem(system, workloads) with the System just made: the object with
\* what its properties workload_len and time_slot_unit give, or the error
\* of __post_init__.
NewProblem ==
    /\ pc = "system"
    /\ result.kind = "system"
    /\ pc' = "problem"
    /\ result' = IF Problem_post_init(problem.workloads) # None
                 THEN Raised(Problem_post_init(problem.workloads))
                 ELSE [kind |-> "problem",
                       workload_len |-> Problem_workload_len(problem.workloads),
                       time_slot_unit |-> Problem_time_slot_unit(problem.workloads)]
    /\ UNCHANGED <<problem, allocator, stage, lp, stats, first, backendCalls, analysis, fs>>

NextConstruction == NewSystem \/ NewProblem

SpecConstruction == InitConstruction /\ [][NextConstruction]_vars

(***************************************************************************)
(* The backend call (edarop.py, _solve_CBC_patched, which replaces         *)
(* COIN_CMD.solve_CBC): the files it writes, the cbc process, the lower    *)
(* bound read from the log.  A line of text is the sequence of its pieces  *)
(* between colons: "Lower bound: 3" is <<"Lower bound", " 3">>.            *)
(***************************************************************************)
\* Longest output of the cbc process, in lines.
MaxLines == 2

\* The names create_tmp_files gives for one solve (unique to it), the log
\* of the process, tmpLp + ".log", and the path of the logPath option.
tmpLp == "tmp-pulp.lp"
tmpMps == "tmp-pulp.mps"
tmpSol == "tmp-pulp.sol"
tmpMst == "tmp-pulp.mst"
tmpLog == "tmp-pulp.lp.log"
userLog == "cbc.log"

\* The temporary files of a solve.
TmpFiles == {tmpLp, tmpMps, tmpSol, tmpMst, tmpLog}

\* Lines the process may print.
CbcLines ==
    {<<"Lower bound", " 3">>, <<"Lower bound", " 5">>,
     <<"Lower bound", " 1", "30">>, <<"Lower bound", " n/a">>,
     <<"lower bound", " 7">>, <<"Optimal - objective value 3">>}

\* What the process may print.
CbcOutputs == SeqsUpTo(CbcLines, MaxLines)

\* float(text): the number, or ValueError.
float(text) ==
    CASE text = " 3" -> Value("float", 3)
      [] text = " 5" -> Value("float", 5)
      [] text = " 7" -> Value("float", 7)
      [] text = "30" -> Value("float", 30)
      [] OTHER -> Failed("float", "ValueError")

\* l.startswith("Lower bound:")
startswith_lower_bound(l) == Len(l) >= 2 /\ l[1] = "Lower bound"

\* The loop of take_best_bound_from_log over the first n lines: ret, and
\* whether an exception ended the loop (except: pass).
RECURSIVE best_bound_loop(_, _)
best_bound_loop(lines, n) ==
    IF n = 0 THEN [ret |-> None, raised |-> FALSE]
    ELSE LET before == best_bound_loop(lines, n - 1)
             l == lines[n]
         IN IF before.raised \/ ~startswith_lower_bound(l) THEN before
            ELSE IF float(l[Len(l)]).kind = "error"
                 THEN [ret |-> before.ret, raised |-> TRUE]
                 ELSE [ret |-> float(l[Len(l)]).value, raised |-> FALSE]

\* take_best_bound_from_log(filename, msg): None when the file cannot be
\* opened, else ret of the loop.
take_best_bound_from_log(files, filename) ==
    IF filename \notin DOMAIN files THEN None
    ELSE best_bound_loop(files[filename], Len(files[filename])).ret

\* open(name, "w") followed by writing lines: the file holds the lines.
WriteFile(files, name, lines) ==
    [f \in DOMAIN files \cup {name} |-> IF f = name THEN lines ELSE files[f]]

\* delete_tmp_files(*names): the files are removed, a missing one is
\* skipped.
delete_tmp_files(files, names) == [f \in DOMAIN files \ names |-> files[f]]

\* The solver object: whether its executable can be run, the arguments and
\* options that _solve_CBC_patched reads.
Solvers ==
    [executable : BOOLEAN, use_mps : BOOLEAN, warmStart : BOOLEAN,
     msg : BOOLEAN, logPath : {None, userLog}]

\* The disk before the solve: no file, or a file at the path of logPath
\* from an earlier run.
DisksBefore == {NoFiles, WriteFile(NoFiles, userLog, <<<<"Lower bound", " 7">>>>)}

InitBackend ==
    /\ problem \in Solvers
    /\ allocator = "COIN_CMD"
    /\ pc = "cbc_call"
    /\ stage = 1
    /\ lp = [cls |-> "COIN_CMD", problem |-> problem]
    /\ stats = NoStats
    /\ first = Nothing
    /\ result = Nothing
    /\ backendCalls = 0
    /\ analysis = Nothing
    /\ fs \in DisksBefore

\* _solve_CBC_patched up to the start of the process: the check of the
\* executable, the model file (and the warm start), the file of logPath
\* opened for writing, the log tmpLp + ".log" opened for writing.
StartCbc ==
    /\ pc = "cbc_call"
    /\ IF ~problem.executable
       THEN /\ pc' = "cbc_returned"
            /\ result' = Raised("PulpSolverError")
            /\ fs' = fs
       ELSE LET model == IF problem.use_mps THEN WriteFile(fs, tmpMps, <<<<"model">>>>)
                         ELSE WriteFile(fs, tmpLp, <<<<"model">>>>)
                mst == IF problem.warmStart THEN WriteFile(model, tmpMst, <<<<"values">>>>)
                       ELSE model
                user == IF problem.logPath # None THEN WriteFile(mst, problem.logPath, <<>>)
                        ELSE mst
            IN /\ fs' = WriteFile(user, tmpLog, <<>>)
               /\ pc' = "cbc_running"
               /\ result' = result
    /\ UNCHANGED <<problem, allocator, stage, lp, stats, first, backendCalls, analysis>>

\* The process ends and _solve_CBC_patched runs to its end: the process
\* printed its output to the log, wrote the solution file or not, and gave
\* its exit code; a code that is not 0 or a missing solution file raises,
\* else the bound is read from the log and the four files are deleted.
FinishCbc ==
    /\ pc = "cbc_running"
    /\ \E output \in CbcOutputs, code \in {0, 1}, solved \in BOOLEAN :
          LET printed == WriteFile(fs, tmpLog, output)
              after == IF solved THEN WriteFile(printed, tmpSol, <<<<"solution">>>>)
                       ELSE printed
          IN IF code # 0 \/ tmpSol \notin DOMAIN after
             THEN /\ result' = Raised("PulpSolverError")
                  /\ fs' = after
             ELSE /\ result' = [kind |-> "status", output |-> output,
                                bestBound |-> take_best_bound_from_log(after, tmpLog)]
                  /\ fs' = delete_tmp_files(after, {tmpMps, tmpLp, tmpSol, tmpMst})
    /\ pc' = "cbc_returned"
    /\ UNCHANGED <<problem, allocator, stage, lp, stats, first, backendCalls, analysis>>

NextBackend == StartCbc \/ FinishCbc

SpecBackend == InitBackend /\ [][NextBackend]_vars

(***************************************************************************)
(* The assignments of the variables X, Y and Z of a model, as the backend  *)
(* may give them.                                                          *)
(***************************************************************************)
\* The constraints of a slot with a slip: the ones of
\* _create_contraints_response_time are left out.
SlotAssignments_without_response_time(P, k) ==
    {s \in XValues(P, k) \X [y_names_at(P, k) -> 0..MaxReq]
             \X [y_names_at(P, k) -> {0, 1}] :
        /\ _create_constraints_throughput_per_region(P, s[2], k)
        /\ _create_contraints_throughput_per_app(P, s[1], k)
        /\ _create_contraints_throughput_per_ic(P, s[1], s[2], k)}

\* The values <<x, y, z>> of the variables of slot k that satisfy the
\* constraints of _create_contraints of the base class for that slot.
SlotAssignments(P, k) ==
    {s \in XValues(P, k) \X [y_names_at(P, k) -> 0..MaxReq]
             \X [y_names_at(P, k) -> {0, 1}] :
        /\ _create_constraints_throughput_per_region(P, s[2], k)
        /\ _create_contraints_response_time(P, s[2], s[3], k)
        /\ _create_contraints_throughput_per_app(P, s[1], k)
        /\ _create_contraints_throughput_per_ic(P, s[1], s[2], k)}

RECURSIVE Assignments(_, _)
\* The values <<x, y, z>> of the variables of slots 0 .. n-1 that satisfy
\* the constraints of the base class.
Assignments(P, n) ==
    IF n = 0 THEN {<< <<>>, <<>>, <<>> >>}
    ELSE {<<p[1] @@ s[1], p[2] @@ s[2], p[3] @@ s[3]>> :
             p \in Assignments(P, n - 1), s \in SlotAssignments(P, n - 1)}

\* The problems without caps: the model of C holds the constraints of the
\* base class only.
UncappedProblems ==
    {P \in Problems : P.max_cost = COST_UNDEFINED /\ P.max_avg_resp_time = TIME_UNDEFINED}

InitAssignment ==
    /\ problem \in UncappedProblems
    /\ allocator = "C"
    /\ pc = "start"
    /\ stage = 1
    /\ lp = [cls |-> "C", problem |-> problem]
    /\ stats = NoStats
    /\ first = Nothing
    /\ result = Nothing
    /\ backendCalls = 0
    /\ analysis = Nothing
    /\ fs = NoFiles

\* The backend gives the variables of the model values that satisfy its
\* constraints.
Assign ==
    /\ pc = "built"
    /\ \E s \in Assignments(lp.problem, workload_len(lp.problem)) :
          result' = [kind |-> "assignment", x |-> s[1], y |-> s[2], z |-> s[3]]
    /\ pc' = "assigned"
    /\ UNCHANGED <<problem, allocator, stage, lp, stats, first, backendCalls, analysis, fs>>

NextAssignment == CreateModel \/ Assign

SpecAssignment == InitAssignment /\ [][NextAssignment]_vars

(***************************************************************************)
(* The statistics of a backend call (edarop.py, __solve_problem and        *)
(* pulp_to_edarop_status) for every pair of codes of the backend.          *)
(***************************************************************************)
\* The codes of LpProblem.status and of LpProblem.sol_status.
LpStatuses ==
    {"LpStatusNotSolved", "LpStatusOptimal", "LpStatusInfeasible",
     "LpStatusUnbounded", "LpStatusUndefined"}
LpSolutions ==
    {"LpSolutionNoSolutionFound", "LpSolutionOptimal", "LpSolutionIntegerFeasible",
     "LpSolutionInfeasible", "LpSolutionUnbounded"}

\* How lp_problem.solve may end: it raises PulpSolverError, or it leaves a
\* pair of codes; bestBound is what the log gave, None without a bound.
SolveEnds ==
    [raised : {FALSE}, status : LpStatuses, sol_status : LpSolutions,
     bestBound : {None, "3.0", "5.0"}]
    \cup [raised : {TRUE}, status : {None}, sol_status : {None},
          bestBound : {None, "3.0", "5.0"}]

InitStatus ==
    /\ problem \in SolveEnds
    /\ allocator = "LpProblem"
    /\ pc = "solving"
    /\ stage = 1
    /\ lp = [cls |-> "LpProblem", problem |-> problem]
    /\ stats = NoStats
    /\ first = Nothing
    /\ result = Nothing
    /\ backendCalls = 0
    /\ analysis = Nothing
    /\ fs = NoFiles

\* __solve_problem from the end of lp_problem.solve on.
RecordStats ==
    /\ pc = "solving"
    /\ stats' = __solve_problem(problem)
    /\ backendCalls' = backendCalls + 1
    /\ pc' = "solved"
    /\ UNCHANGED <<problem, allocator, stage, lp, first, result, analysis, fs>>

NextStatus == RecordStats

SpecStatus == InitStatus /\ [][NextStatus]_vars

(***************************************************************************)
(* Decoding of the values of the request variables as the backend gives    *)
(* them, floats (edarop.py, _get_valid_reqs and _get_alloc).  A float is   *)
(* the fraction num / den with den > 0.                                    *)
(***************************************************************************)
\* 1 / 1e-7: abs(reqs) < 1e-7 is abs(num) * EpsilonInverse < den.
EpsilonInverse == 10000000

\* Values of a request variable: 0, one and two, and one and two tenths
\* and hundredths of a millionth, with both signs.
FloatValues ==
    {[num |-> n, den |-> d] :
        n \in -2..2, d \in {1, EpsilonInverse, 10 * EpsilonInverse}}

\* The values of the request variables of a slot: two variables.
SlotValues == [1..2 -> FloatValues]

\* _get_valid_reqs with a slip: only the value 0 is taken for 0.
get_valid_reqs_exact(reqs) ==
    IF reqs.num = 0 THEN Value("_get_valid_reqs", [num |-> 0, den |-> 1])
    ELSE IF reqs.num > 0 THEN Value("_get_valid_reqs", reqs)
    ELSE Failed("_get_valid_reqs", "ValueError")

\* _get_valid_reqs on a float: 0 for a very small value, the value when it
\* is positive, else ValueError.
get_valid_reqs_float(reqs) ==
    LET abs == IF reqs.num < 0 THEN -reqs.num ELSE reqs.num
    IN IF abs * EpsilonInverse < reqs.den
       THEN Value("_get_valid_reqs", [num |-> 0, den |-> 1])
       ELSE IF reqs.num > 0 THEN Value("_get_valid_reqs", reqs)
       ELSE Failed("_get_valid_reqs", "ValueError")

\* The reqs of _get_alloc for the values y of the request variables of a
\* slot: every value decoded, or the error of the first that fails.
get_alloc_reqs(y) ==
    IF \E n \in DOMAIN y : get_valid_reqs_float(y[n]).kind = "error"
    THEN Raised("ValueError")
    ELSE [kind |-> "allocation",
          reqs |-> [n \in DOMAIN y |-> get_valid_reqs_float(y[n]).value]]

InitDecoding ==
    /\ problem \in SlotValues
    /\ allocator = "Decoder"
    /\ pc = "decoding"
    /\ stage = 1
    /\ lp = [cls |-> "Decoder", problem |-> problem]
    /\ stats = NoStats
    /\ first = Nothing
    /\ result = Nothing
    /\ backendCalls = 0
    /\ analysis = Nothing
    /\ fs = NoFiles

\* _get_alloc of a solution with feasible status, for the request
\* variables: the decoded requests, or the ValueError that leaves solve().
Decode ==
    /\ pc = "decoding"
    /\ result' = get_alloc_reqs(problem)
    /\ pc' = "decoded"
    /\ UNCHANGED <<problem, allocator, stage, lp, stats, first, backendCalls, analysis, fs>>

NextDecoding == Decode

SpecDecoding == InitDecoding /\ [][NextDecoding]_vars

(***************************************************************************)
(* The names of the variables (_create_vars).  The inputs are Systems      *)
(* whose app names and instance class names contain underscores, every     *)
(* name being unique in its list; all instance classes sit in region r1,   *)
(* which is also the source region of the workload.                        *)
(***************************************************************************)
AppNames == {"a", "a_b", "a_r1"}
IcNames == {"c", "b_c", "i", "r1_i"}

NamedApps ==
    {[id |-> nm, name |-> nm, max_resp_time |-> [value |-> 90, units |-> "s"]] :
        nm \in AppNames}
NamedIcs ==
    {[id |-> nm, name |-> nm, price |-> [value |-> 1, units |-> "h"],
      region |-> "r1"] : nm \in IcNames}

\* No two entries of the list have the same name.
UniqueNames(list_with_names) ==
    \A m, n \in DOMAIN list_with_names :
        m # n => list_with_names[m].name # list_with_names[n].name

\* System.__post_init__ on a System whose regions are given by name: the
\* Region object of a name is one object.
NamedSystemError(sys) ==
    LET regs == [n \in DOMAIN sys.ics |->
                    [id |-> sys.ics[n].region, name |-> sys.ics[n].region]]
    IN IF __check_uniq_names(sys.apps) # None THEN "ValueError"
       ELSE IF __check_uniq_names(sys.ics) # None THEN "ValueError"
       ELSE __check_uniq_names(regs)

\* The Systems: one to MaxEntries apps and instance classes; every pair
\* has a Performance, or only the pairs of the first instance class; the
\* route r1 -> r1 has a latency or not.
NamedSystems ==
    UNION { { [apps |-> apps, ics |-> ics,
               perfs |-> [pair \in pairs |-> Perf1(1)],
               latencies |-> [rt \in routes |->
                                 [value |-> [value |-> 1, units |-> "s"]]]] :
                 pairs \in {Range(apps) \X Range(ics), Range(apps) \X {ics[1]}},
                 routes \in {{}, {<<"r1", "r1">>}} } :
            apps \in {s \in SeqsUpTo(NamedApps, MaxEntries) : s # <<>> /\ UniqueNames(s)},
            ics \in {s \in SeqsUpTo(NamedIcs, MaxEntries) : s # <<>> /\ UniqueNames(s)} }

\* The Problems: one workload of one or two slots, for the first app.
NamedProblems ==
    {[system |-> sys,
      workloads |-> (<<sys.apps[1], "r1">> :> [values |-> vals, time_unit |-> "h"]),
      max_cost |-> COST_UNDEFINED, max_avg_resp_time |-> TIME_UNDEFINED] :
        sys \in {s \in NamedSystems : NamedSystemError(s) = None},
        vals \in {<<0>>, <<0, 0>>}}

RECURSIVE Concat(_, _)
\* f[1] \o ... \o f[n], the lists of a loop put one after the other.
Concat(f, n) == IF n = 0 THEN <<>> ELSE Concat(f, n - 1) \o f[n]

\* Problem.regions as the tuple the loops go through.
regions_tuple(P) ==
    CHOOSE s \in [1..Cardinality(regions(P)) -> regions(P)] : Range(s) = regions(P)

\* The loop of _create_vars_x: the (a, i, k) it makes a variable for, in
\* the order of the loop, each with its name.
x_loop(P) ==
    LET apps == P.system.apps
        ics == P.system.ics
        len == workload_len(P)
    IN Concat([na \in DOMAIN apps |->
         Concat([ni \in DOMAIN ics |->
           Concat([nk \in 1..len |->
             IF <<apps[na], ics[ni]>> \in DOMAIN P.system.perfs
             THEN << [name |-> _aik_name(apps[na], ics[ni], nk - 1),
                      app |-> apps[na], ic |-> ics[ni], time_slot |-> nk - 1] >>
             ELSE <<>>], len)], Len(ics))], Len(apps))

\* The loop of _create_vars_y and of _create_vars_z: the (a, e, i, k) it
\* makes a variable for, in the order of the loop, each with its name.
y_loop(P) ==
    LET apps == P.system.apps
        regs == regions_tuple(P)
        ics == P.system.ics
        len == workload_len(P)
    IN Concat([na \in DOMAIN apps |->
         Concat([ne \in DOMAIN regs |->
           Concat([ni \in DOMAIN ics |->
             Concat([nk \in 1..len |->
               IF _can_send_requests(P, regs[ne], ics[ni].region)
               THEN << [name |-> _aeik_name(apps[na], regs[ne], ics[ni], nk - 1),
                        app |-> apps[na], region |-> regs[ne], ic |-> ics[ni],
                        time_slot |-> nk - 1] >>
               ELSE <<>>], len)], Len(ics))], Len(regs))], Len(apps))

\* The names of the entries of a loop, in order.
NamesOf(loop) == [n \in DOMAIN loop |-> loop[n].name]

\* A dictionary filled in the order of the loop: a later entry of a name
\* replaces the earlier one.
InfoOf(loop) ==
    [nm \in Range(NamesOf(loop)) |->
        loop[CHOOSE n \in DOMAIN loop :
                /\ loop[n].name = nm
                /\ \A m \in DOMAIN loop : loop[m].name = nm => m <= n]]

\* The key of an entry of a loop in a cache of names.
KeyOf(r, cache) ==
    CASE cache = "x_names_app_timeslot" -> <<r.app, r.time_slot>>
      [] cache = "y_names_app_ic_timeslot" -> <<r.app, r.ic, r.time_slot>>
      [] cache = "y_names_app_region_timeslot" -> <<r.app, r.region, r.time_slot>>

\* A cache of names per key: the names of the entries of the loop with the
\* key, in order.
CacheOf(loop, cache) ==
    [key \in {KeyOf(loop[n], cache) : n \in DOMAIN loop} |->
        LET HasKey(r) == KeyOf(r, cache) = key
        IN NamesOf(SelectSeq(loop, HasKey))]

\* _create_vars: the lists, dictionaries and caches of the allocator after
\* _create_vars_x, _create_vars_y and _create_vars_z; x, y and z are the
\* keys of the dictionaries of LpVariable.dicts, one variable per name.
_create_vars(P) ==
    LET xs == x_loop(P)
        ys == y_loop(P)
    IN [kind |-> "vars",
        x_names |-> NamesOf(xs),
        x_info |-> InfoOf(xs),
        x_names_app_timeslot |-> CacheOf(xs, "x_names_app_timeslot"),
        x |-> Range(NamesOf(xs)),
        y_names |-> NamesOf(ys),
        y_info |-> InfoOf(ys),
        y_names_app_ic_timeslot |-> CacheOf(ys, "y_names_app_ic_timeslot"),
        y_names_app_region_timeslot |-> CacheOf(ys, "y_names_app_region_timeslot"),
        y |-> Range(NamesOf(ys)),
        z_names |-> NamesOf(ys),
        z |-> Range(NamesOf(ys))]

InitNames ==
    /\ problem \in NamedProblems
    /\ allocator = "C"
    /\ pc = "naming"
    /\ stage = 1
    /\ lp = [cls |-> "C", problem |-> problem]
    /\ stats = NoStats
    /\ first = Nothing
    /\ result = Nothing
    /\ backendCalls = 0
    /\ analysis = Nothing
    /\ fs = NoFiles

\* _create_vars on a new allocator.
CreateVars ==
    /\ pc = "naming"
    /\ result' = _create_vars(problem)
    /\ pc' = "named"
    /\ UNCHANGED <<problem, allocator, stage, lp, stats, first, backendCalls, analysis, fs>>

NextNames == CreateVars

SpecNames == InitNames /\ [][NextNames]_vars

TypeOK ==
    /\ pc \in {"start", "built", "first", "done", "analyzed"}
    /\ stage \in {1, 2}
    /\ backendCalls \in 0..2

(***************************************************************************)
(* Properties.                                                             *)
(***************************************************************************)
Done == pc = "done"
IsSolution == result.kind = "solution"
\* solve() returned a Solution with status OPTIMAL or INTEGER_FEASIBLE.
FeasibleSol == IsSolution /\ result.sol.solving_stats.status \in FeasibleStatus

\* Requests of app a from region e in the allocation of slot number n
\* (n = k + 1), summed over the instance classes.
RoutedFrom(sol, a, e, n) ==
    LET keys == {t \in DOMAIN sol.alloc[n].reqs : t[1] = a /\ t[2] = e}
    IN Sum([t \in keys |-> sol.alloc[n].reqs[t]], keys)

\* Requests of app a served by instance class i in the allocation of slot
\* number n, summed over the source regions.
RoutedTo(sol, a, i, n) ==
    LET keys == {t \in DOMAIN sol.alloc[n].reqs : t[1] = a /\ t[3] = i}
    IN Sum([t \in keys |-> sol.alloc[n].reqs[t]], keys)

\* C1: in every Solution with feasible status and for every workload entry
\* (a, e) and slot, the requests routed from e over all the instance
\* classes equal the workload, also for a region e without any route.
C1_DemandRouted ==
    FeasibleSol =>
        \A key \in DOMAIN result.sol.problem.workloads :
            \A n \in DOMAIN result.sol.alloc :
                RoutedFrom(result.sol, key[1], key[2], n)
                    = result.sol.problem.workloads[key].values[n]

\* C2: in every Solution with feasible status, every (a, e, i, k) with a
\* positive request count has latency(e, i.region) + slo(a, i) at most
\* max_resp_time(a), all three taken in seconds.
C2_DeadlineMet ==
    FeasibleSol =>
        \A n \in DOMAIN result.sol.alloc :
            \A t \in DOMAIN result.sol.alloc[n].reqs :
                result.sol.alloc[n].reqs[t] > 0 =>
                    LET sys == result.sol.problem.system
                    IN TimeValue_to(sys.latencies[<<t[2], t[3].region>>].value, "s")
                         + TimeValue_to(sys.perfs[<<t[1], t[3]>>].slo, "s")
                       <= TimeValue_to(t[1].max_resp_time, "s")

\* A feasible solution that routes requests although the system has a route
\* whose response time misses the deadline of the app.
C2_Witness ==
    /\ FeasibleSol
    /\ \E n \in DOMAIN result.sol.alloc :
          \E t \in DOMAIN result.sol.alloc[n].reqs : result.sol.alloc[n].reqs[t] > 0
    /\ LET P == result.sol.problem
       IN \E t \in YIndex(P) :
             <<t[1], t[3]>> \in DOMAIN P.system.perfs
             /\ resp_time(P.system, t[1], t[2], t[3]).value
                   > TimeValue_to(t[1].max_resp_time, "s")

\* C3: in every Solution with feasible status and for every (a, i) with a
\* Performance and every slot, VMs(a, i, k) * perf_per_slot(a, i) is at
\* least the sum over the source regions of the requests routed to (a, i).
C3_CapacityPerIc ==
    FeasibleSol =>
        \A n \in DOMAIN result.sol.alloc :
            \A t \in DOMAIN result.sol.problem.system.perfs :
                result.sol.alloc[n].ics[t]
                      * perf_per_ts(result.sol.problem, t[1], t[2])
                   >= RoutedTo(result.sol, t[1], t[2], n)

\* A feasible solution in which an instance class serves requests of two
\* source regions, with exactly the VMs they need.
C3_Witness ==
    /\ FeasibleSol
    /\ \E n \in DOMAIN result.sol.alloc :
          \E t \in DOMAIN result.sol.problem.system.perfs :
             /\ \E e1, e2 \in regions(result.sol.problem) :
                   /\ e1 # e2
                   /\ <<t[1], e1, t[2]>> \in DOMAIN result.sol.alloc[n].reqs
                   /\ <<t[1], e2, t[2]>> \in DOMAIN result.sol.alloc[n].reqs
                   /\ result.sol.alloc[n].reqs[<<t[1], e1, t[2]>>] > 0
                   /\ result.sol.alloc[n].reqs[<<t[1], e2, t[2]>>] > 0
             /\ result.sol.alloc[n].ics[t] * perf_per_ts(result.sol.problem, t[1], t[2])
                   = RoutedTo(result.sol, t[1], t[2], n)


\* C4: when the cost allocator C returns OPTIMAL, the cost of its
\* allocation is the least total cost over all the integer assignments
\* that satisfy the constraints of the model (capacity, demand,
\* route activation, deadline, and the average response time cap when
\* set); with one app and one instance class the VMs of slot k are
\* the ceiling of (sum over e of workload[a, e, k]) / perf_per_slot.
C4_MinimumCost ==
    (allocator = "C" /\ FeasibleSol /\ result.sol.solving_stats.status = "OPTIMAL") =>
        LET P == result.sol.problem
            sys == P.system
        IN /\ \A s \in Feasible([cls |-> "C", problem |-> P]) :
                 cost(result.sol) <= TotalCost(P, s[1])
           /\ (Len(sys.apps) = 1 /\ Len(sys.ics) = 1
               /\ <<sys.apps[1], sys.ics[1]>> \in DOMAIN sys.perfs) =>
                 \A n \in DOMAIN result.sol.alloc :
                    LET load == _workload_for_app_in_time_slot(P, sys.apps[1], n - 1)
                        perf == perf_per_ts(P, sys.apps[1], sys.ics[1])
                    IN result.sol.alloc[n].ics[<<sys.apps[1], sys.ics[1]>>]
                          = (load + perf - 1) \div perf

\* C returned OPTIMAL for a single instance class whose performance does
\* not divide the load of the slot (the ceiling rounds up), and another
\* assignment that satisfies the constraints costs more.
C4_Witness ==
    /\ allocator = "C" /\ FeasibleSol /\ result.sol.solving_stats.status = "OPTIMAL"
    /\ LET P == result.sol.problem
           sys == P.system
       IN /\ Len(sys.ics) = 1
          /\ \E n \in DOMAIN result.sol.alloc :
                LET load == _workload_for_app_in_time_slot(P, sys.apps[1], n - 1)
                    perf == perf_per_ts(P, sys.apps[1], sys.ics[1])
                IN load > 0 /\ load % perf # 0
                   /\ result.sol.alloc[n].ics[<<sys.apps[1], sys.ics[1]>>] * perf > load
          /\ \E s \in Feasible([cls |-> "C", problem |-> P]) :
                cost(result.sol) < TotalCost(P, s[1])


\* C5: whenever solve() of a single-stage allocator (C or R) has run the
\* backend, it returns a Solution that carries the observed status and
\* stats; its Allocation has exactly workload_len slot allocations if and
\* only if the status is OPTIMAL or INTEGER_FEASIBLE and is empty for every
\* other status (INFEASIBLE, INTEGER_INFEASIBLE, ABORTED, CBC_ERROR,
\* UNKNOWN).
C5_SolutionForEveryStatus ==
    (allocator \in {"C", "R"} /\ Done /\ backendCalls = 1) =>
        /\ IsSolution
        /\ result.sol.solving_stats = stats
        /\ (Len(result.sol.alloc) = workload_len(problem)
               <=> stats.status \in FeasibleStatus)
        /\ (stats.status \notin FeasibleStatus => result.sol.alloc = <<>>)

\* C6: when the first stage of a two-stage allocator (CR or RC) ends with
\* status INFEASIBLE or INTEGER_INFEASIBLE, solve() returns a Solution with
\* an empty Allocation and that status; no error is raised.
C6_TwoStageInfeasibleReturns ==
    (allocator \in {"CR", "RC"} /\ Done /\ first.kind = "solution"
     /\ first.solving_stats.status \in {"INFEASIBLE", "INTEGER_INFEASIBLE"}) =>
        /\ IsSolution
        /\ result.sol.alloc = <<>>
        /\ result.sol.solving_stats.status = first.solving_stats.status

\* C7: solve() of the response allocator R on a problem whose max_cost is
\* not set ends with the ValueError of the missing bound; no Solution is
\* returned and the backend is never invoked.
C7_MissingBound ==
    (allocator = "R" /\ problem.max_cost = COST_UNDEFINED /\ Done) =>
        /\ result = Raised("ValueError")
        /\ backendCalls = 0

\* Comparison of two average response times kept as fractions of seconds.
AvgLeq(t1, t2) == t1.num * t2.den <= t2.num * t1.den

\* The backend proved the optimum of the first stage and, if the second
\* stage reached it, of the second stage.
BothStagesOptimal ==
    /\ Done
    /\ first.kind = "solution"
    /\ first.solving_stats.status = "OPTIMAL"
    /\ (backendCalls = 2 => stats.status = "OPTIMAL")

\* C8: on every problem on which C is feasible, CR returns a feasible
\* Solution whose cost equals the cost of the solution of C, whose average
\* response time is at most the one of the solution of C and is the least
\* over the allocations of that cost.
C8_CRKeepsCost ==
    (allocator = "CR" /\ BothStagesOptimal) =>
        /\ FeasibleSol
        /\ cost(result.sol) = first.cost
        /\ AvgLeq(avg_resp_time(result.sol), first.avg_resp_time)
        /\ \A s \in Feasible([cls |-> "C", problem |-> problem]) :
              TotalCost(problem, s[1]) = first.cost =>
                    AvgLeq(avg_resp_time(result.sol),
                           avg_resp_time(_compose_solution(problem,
                              [raised |-> FALSE, status |-> "LpStatusOptimal",
                               sol_status |-> "LpSolutionOptimal", values |-> s],
                              [status |-> "OPTIMAL", lower_bound |-> None])))

\* C9: on every problem on which R is feasible, RC returns a feasible
\* Solution whose average response time equals the one of the solution of
\* R and whose cost is at most the cost of the solution of R, also when a
\* workload entry comes from a region without any route.
C9_RCKeepsRespTime ==
    (allocator = "RC" /\ BothStagesOptimal) =>
        /\ FeasibleSol
        /\ AvgLeq(avg_resp_time(result.sol), first.avg_resp_time)
        /\ AvgLeq(first.avg_resp_time, avg_resp_time(result.sol))
        /\ cost(result.sol) <= first.cost

\* C10: every Solution with feasible status that C returns on a problem
\* with max_avg_resp_time set has an average response time, as the
\* analyzer measures it over the routed requests, of at most
\* max_avg_resp_time.
C10_AvgRespTimeCap ==
    (allocator = "C" /\ FeasibleSol /\ problem.max_avg_resp_time # TIME_UNDEFINED) =>
        LET mart == problem.max_avg_resp_time
        IN AvgLeq(avg_resp_time(result.sol),
                  [num |-> mart.num * TimeUnit_to(mart.units, "s"), den |-> mart.den,
                   units |-> "s"])


\* C11: every Solution with feasible status that the response allocator R
\* returns has a cost, as the analyzer measures it, of at most the
\* max_cost of the Problem.
C11_CostCapOfR ==
    (allocator = "R" /\ FeasibleSol) => cost(result.sol) <= problem.max_cost

\* R returned a feasible solution that spends max_cost exactly, while the
\* other constraints of the model admit an assignment that costs more.
C11_Witness ==
    /\ allocator = "R" /\ FeasibleSol
    /\ cost(result.sol) = problem.max_cost
    /\ \E s \in BaseFeasible(problem, workload_len(problem)) :
          TotalCost(problem, s[1]) > problem.max_cost


\* C12 (as stated): every Solution with feasible status that C or R returns
\* for a Problem with max_cost set has a cost of at most max_cost.
C12_CostCapInEveryModel ==
    (allocator \in {"C", "R"} /\ FeasibleSol /\ problem.max_cost # COST_UNDEFINED) =>
        cost(result.sol) <= problem.max_cost

\* The assignments that satisfy what C emits when max_cost is left out of
\* the Problem.
FeasibleWithoutMaxCost(P) ==
    {s \in BaseFeasible(P, workload_len(P)) :
        P.max_avg_resp_time # TIME_UNDEFINED
            => _create_constraint_max_avg_resp_time(P, s[2])}

\* C12 (amended): for a Problem with max_cost set, only the model of R
\* holds the cost cap: a feasible Solution of R costs at most max_cost,
\* while C answers as if max_cost were not set: it reports INFEASIBLE only
\* when nothing satisfies the other constraints, and its OPTIMAL cost is
\* the least cost under the other constraints, above max_cost or not.
C12_CostCapOnlyInR ==
    (allocator \in {"C", "R"} /\ Done /\ IsSolution
     /\ problem.max_cost # COST_UNDEFINED) =>
        /\ (allocator = "R" /\ FeasibleSol) => cost(result.sol) <= problem.max_cost
        /\ allocator = "C" =>
              /\ result.sol.solving_stats.status = "INFEASIBLE"
                    => FeasibleWithoutMaxCost(problem) = {}
              /\ result.sol.solving_stats.status = "OPTIMAL"
                    => \A s \in FeasibleWithoutMaxCost(problem) :
                          cost(result.sol) <= TotalCost(problem, s[1])

\* C returned OPTIMAL for a Problem with max_cost set, with a cost above
\* max_cost.
C12_Witness ==
    /\ allocator = "C" /\ FeasibleSol
    /\ result.sol.solving_stats.status = "OPTIMAL"
    /\ problem.max_cost # COST_UNDEFINED
    /\ cost(result.sol) > problem.max_cost


\* What EdaropCAllocator builds for the system and workloads of P with no
\* cap set.
CostModelOf(P) ==
    [cls |-> "C",
     problem |-> [system |-> P.system, workloads |-> P.workloads,
                  max_cost |-> COST_UNDEFINED, max_avg_resp_time |-> TIME_UNDEFINED]]

\* C is feasible on the system and workloads of P: its model builds and
\* some assignment satisfies it.
CFeasibleOn(P) ==
    BuildError(CostModelOf(P)) = None /\ Feasible(CostModelOf(P)) # {}

\* The optimal cost of C on the system and workloads of P.
COptimalCost(P) ==
    LET costs == {TotalCost(P, s[1]) : s \in Feasible(CostModelOf(P))}
    IN CHOOSE c \in costs : \A d \in costs : c <= d

\* The backend of a single-stage solve, if it ran, ended with a verdict:
\* a solution or a proof that there is none.
BackendConclusive ==
    backendCalls = 1 => stats.status \in {"OPTIMAL", "INTEGER_FEASIBLE", "INFEASIBLE"}

\* C13: R with max_cost = m returns a Solution with feasible status if and
\* only if C without caps is feasible on the same system and workloads and
\* m is at least the optimal cost of C; when m is below that optimum R
\* returns INFEASIBLE with an empty Allocation.
C13_RFeasibleIffCostReachable ==
    (allocator = "R" /\ Done /\ problem.max_cost # COST_UNDEFINED
     /\ BackendConclusive) =>
        /\ FeasibleSol
              <=> (CFeasibleOn(problem) /\ problem.max_cost >= COptimalCost(problem))
        /\ (CFeasibleOn(problem) /\ problem.max_cost < COptimalCost(problem)) =>
              /\ IsSolution
              /\ result.sol.solving_stats.status = "INFEASIBLE"
              /\ result.sol.alloc = <<>>


\* Some app, source region and slot with a positive workload have no
\* instance class with a route from the region that meets the deadline of
\* the app.
NoRouteInTime(P) ==
    \E key \in DOMAIN P.workloads : \E k \in Slots(P) :
        /\ Workload(P, key[1], key[2], k) > 0
        /\ ~ \E i \in Range(P.system.ics) :
                /\ _can_send_requests(P, key[2], i.region)
                /\ <<key[1], i>> \in DOMAIN P.system.perfs
                /\ TimeValue_to(P.system.latencies[<<key[2], i.region>>].value, "s")
                     + TimeValue_to(P.system.perfs[<<key[1], i>>].slo, "s")
                   <= TimeValue_to(key[1].max_resp_time, "s")

\* C14: when some (app, source region, slot) with positive workload has no
\* instance class with a route that meets the deadline, C (its model
\* built, its backend ended with a verdict) returns status INFEASIBLE with
\* an empty Allocation, never a populated one.
C14_NoRouteInTimeIsInfeasible ==
    (allocator = "C" /\ Done /\ NoRouteInTime(problem)
     /\ BuildError(lp) = None /\ BackendConclusive) =>
        /\ IsSolution
        /\ result.sol.solving_stats.status = "INFEASIBLE"
        /\ result.sol.alloc = <<>>


\* C15: every operation of the analyzer applied to a Solution whose status
\* is neither OPTIMAL nor INTEGER_FEASIBLE ends with the ValueError raised
\* for solutions that are not feasible, and returns no value.
C15_AnalyzerRejectsNonFeasible ==
    (pc = "analyzed" /\ result.sol.solving_stats.status \notin FeasibleStatus) =>
        analysis = Failed(analysis.op, "ValueError")


\* C16: deadline_miss_rate applied to a Solution with feasible status
\* returns 0 when the allocation routes no request at all, and otherwise
\* the requests on routes whose response time is above max_resp_time of
\* the app divided by the routed requests.
C16_DeadlineMissRate ==
    (pc = "analyzed" /\ analysis.op = "deadline_miss_rate"
     /\ result.sol.solving_stats.status \in FeasibleStatus) =>
        /\ analysis.kind = "value"
        /\ LET idx == ReqsIndex(result.sol)
               late == {t \in idx : Missed(result.sol, t[2])}
               routed == Sum([t \in idx |-> result.sol.alloc[t[1]].reqs[t[2]]], idx)
               missed == Sum([t \in late |-> result.sol.alloc[t[1]].reqs[t[2]]], late)
           IN IF routed = 0 THEN analysis.value.num = 0
              ELSE analysis.value.num * routed = missed * analysis.value.den


\* The first sub-solve of a two-stage allocator returned a Solution with
\* feasible status, from which the bound can be measured.
FirstFeasible ==
    first.kind = "solution" /\ first.solving_stats.status \in FeasibleStatus

\* The Problem of the second sub-solve: the one of the allocator with the
\* bound measured on the first Solution.
SecondProblem ==
    IF allocator = "CR"
    THEN [system |-> problem.system, workloads |-> problem.workloads,
          max_cost |-> first.cost, max_avg_resp_time |-> TIME_UNDEFINED]
    ELSE [system |-> problem.system, workloads |-> problem.workloads,
          max_cost |-> problem.max_cost, max_avg_resp_time |-> first.avg_resp_time]

\* C17: in CR and RC the two sub-solves run one after the other: the second
\* starts only after the first returned a feasible Solution and works on
\* the Problem whose bound was measured on that Solution; when the first
\* stage ends with an error (building the model, the backend, or a
\* Solution that gives no bound) solve() ends with an error, the second
\* model is never built and the backend is not invoked for it.
C17_StagesInSequence ==
    /\ [](allocator \in {"CR", "RC"} =>
            /\ stage = 1 =>
                  /\ lp = [cls |-> FirstClass(allocator), problem |-> problem]
                  /\ backendCalls <= 1
                  /\ Done => result.kind = "error"
            /\ stage = 2 =>
                  /\ FirstFeasible
                  /\ backendCalls >= 1
                  /\ lp = [cls |-> IF allocator = "CR" THEN "R" ELSE "C",
                           problem |-> SecondProblem])
    /\ [][stage' # stage =>
            /\ stage = 1 /\ stage' = 2
            /\ pc = "first" /\ FirstFeasible
            /\ backendCalls = 1 /\ backendCalls' = 1
            /\ pc' = "start"]_vars

\* The first stage of a two-stage allocator returned a Solution that is not
\* feasible, and solve() ended with an error after one backend call, in
\* stage 1.
C17_Witness ==
    /\ allocator \in {"CR", "RC"} /\ Done /\ stage = 1
    /\ first.kind = "solution" /\ ~FirstFeasible
    /\ result.kind = "error" /\ backendCalls = 1

\* Two entries at different places of the sequence have the same name.
NameListedTwice(list_with_names) ==
    \E i, j \in DOMAIN list_with_names :
        i # j /\ list_with_names[i].name = list_with_names[j].name

\* Two different objects of the sequence have the same name.
TwoObjectsOfOneName(list_with_names) ==
    \E i, j \in DOMAIN list_with_names :
        /\ list_with_names[i].id # list_with_names[j].id
        /\ list_with_names[i].name = list_with_names[j].name

\* The regions of the instance classes, one entry per instance class.
RegionsOf(sys) == [n \in DOMAIN sys.ics |-> sys.ics[n].region]

SystemMade == pc = "system"

\* C18 as stated: System construction fails with ValueError exactly when
\* the apps list a name twice, the instance classes list a name twice, or
\* two regions that are not equal by value have the same name; instance
\* classes in regions equal by value are accepted and a name listed twice
\* is rejected however the entries were made.
C18_DuplicateNameRejected ==
    SystemMade =>
        (result = Raised("ValueError")
            <=> \/ NameListedTwice(problem.system.apps)
                \/ NameListedTwice(problem.system.ics)
                \/ \E i, j \in DOMAIN problem.system.ics :
                      LET ri == RegionsOf(problem.system)[i]
                          rj == RegionsOf(problem.system)[j]
                      IN ri.name = rj.name /\ [ri EXCEPT !.id = 0] # [rj EXCEPT !.id = 0])

\* C18, amended: System construction fails with ValueError exactly when
\* two different objects among the apps, among the instance classes, or
\* among the regions of the instance classes have the same name, equal by
\* value or not; an object listed twice and instance classes that hold the
\* same Region object are accepted.
C18_DuplicateNameByIdentity ==
    SystemMade =>
        (result = Raised("ValueError")
            <=> \/ TwoObjectsOfOneName(problem.system.apps)
                \/ TwoObjectsOfOneName(problem.system.ics)
                \/ TwoObjectsOfOneName(RegionsOf(problem.system)))

\* A System was made from an App object listed twice and two instance
\* classes that hold the same Region object.
C18_Witness ==
    /\ SystemMade /\ result.kind = "system"
    /\ Len(problem.system.apps) = 2
    /\ problem.system.apps[1] = problem.system.apps[2]
    /\ Len(problem.system.ics) = 2
    /\ problem.system.ics[1].name # problem.system.ics[2].name
    /\ problem.system.ics[1].region = problem.system.ics[2].region


ProblemMade == pc = "problem"

\* C19: Problem construction fails with ValueError exactly when two
\* workloads of the mapping differ in slot unit or in number of slots;
\* after a successful construction every workload has the number of slots
\* that workload_len returns and the slot unit that time_slot_unit returns.
C19_InconsistentWorkloads ==
    ProblemMade =>
        LET w == problem.workloads
        IN /\ result = Raised("ValueError")
                <=> \E m, n \in DOMAIN w :
                       \/ w[m].workload.time_unit # w[n].workload.time_unit
                       \/ Len(w[m].workload.values) # Len(w[n].workload.values)
           /\ result.kind = "problem" =>
                \A n \in DOMAIN w :
                    /\ result.workload_len =
                           Value("workload_len", Len(w[n].workload.values))
                    /\ result.time_slot_unit =
                           Value("time_slot_unit", w[n].workload.time_unit)

\* A Problem was made from three workloads of two slots each.
C19_Witness ==
    /\ ProblemMade /\ result.kind = "problem"
    /\ Len(problem.workloads) = 3
    /\ result.workload_len = Value("workload_len", 2)


\* Places in the catalog of the instance classes of the least price per
\* request of the app.
CheapestPlaces(P, app) ==
    LET ics == P.system.ics
        rate(n) == dollar_per_req(P, app, ics[n])
    IN {n \in DOMAIN ics :
          \A m \in DOMAIN ics : rate(n).num * rate(m).den <= rate(m).num * rate(n).den}

\* Among them, the places of the instance classes with a latency from
\* src_reg of the least latency plus slo.
FastestPlaces(P, app, src_reg) ==
    LET ics == P.system.ics
        defined(n) == <<src_reg, ics[n].region>> \in DOMAIN P.system.latencies
        time(n) == TimeValue_to(P.system.latencies[<<src_reg, ics[n].region>>].value, "s")
                     + TimeValue_to(P.system.perfs[<<app, ics[n]>>].slo, "s")
    IN {n \in CheapestPlaces(P, app) :
          /\ defined(n)
          /\ \A m \in CheapestPlaces(P, app) : defined(m) => time(n) <= time(m)}

\* Among those, the places of the instance classes of the least price.
SmallestPlaces(P, app, src_reg) ==
    LET ics == P.system.ics
    IN {n \in FastestPlaces(P, app, src_reg) :
          \A m \in FastestPlaces(P, app, src_reg) :
              TimeRatioValue_to(ics[n].price, "h") <= TimeRatioValue_to(ics[m].price, "h")}

\* The entries of seq at the places of S, in the order of seq.
InOrder(seq, S) ==
    LET upTo[n \in 0..Len(seq)] ==
            IF n = 0 THEN <<>>
            ELSE IF n \in S THEN Append(upTo[n - 1], seq[n]) ELSE upTo[n - 1]
    IN upTo[Len(seq)]

\* The greedy allocator returned a Solution.
GreedyReturned ==
    allocator = "Greedy" /\ pc \in {"done", "analyzed"} /\ result.kind = "solution"

\* C20: in a Solution of the greedy allocator, the requests of every (app,
\* source region) with a workload go, in every slot, to one instance class:
\* the first in the catalog among the ones left by three filters, least
\* price per request, then (with a latency from the source) least latency
\* plus slo, then least price; the first two filters give their instance
\* classes in the order of the catalog.
C20_ThreeFilters ==
    GreedyReturned =>
        \A t \in WorkloadPairs(problem) :
            LET app == t[1]
                src_reg == t[2]
                catalog == problem.system.ics
                smallest == SmallestPlaces(problem, app, src_reg)
                first_place == CHOOSE n \in smallest : \A m \in smallest : n <= m
            IN /\ smallest # {}
               /\ cheapest_ics(problem, app) = InOrder(catalog, CheapestPlaces(problem, app))
               /\ fastest_ics(problem, src_reg, cheapest_ics(problem, app), app)
                      = InOrder(catalog, FastestPlaces(problem, app, src_reg))
               /\ \A n \in DOMAIN result.sol.alloc :
                      {k[3] : k \in {k \in DOMAIN result.sol.alloc[n].reqs :
                                        k[1] = app /\ k[2] = src_reg}}
                          = {catalog[first_place]}

\* The greedy allocator returned a Solution where each filter left out an
\* instance class that is not the last of the catalog and the last filter
\* left two, the chosen one not being the first of the catalog.
C20_Witness ==
    /\ GreedyReturned
    /\ \E t \in WorkloadPairs(problem) :
          LET catalog == problem.system.ics
              cheapest == CheapestPlaces(problem, t[1])
              fastest == FastestPlaces(problem, t[1], t[2])
              smallest == SmallestPlaces(problem, t[1], t[2])
          IN /\ Len(catalog) = 3
             /\ Cardinality(cheapest) = 3
             /\ Cardinality(fastest) = 3
             /\ smallest = {2, 3}
             /\ <<t[1], t[2], catalog[2]>> \in DOMAIN result.sol.alloc[1].reqs


\* The source regions whose requests of app the greedy allocator sends to
\* ic: the ones with a workload of app for which the chooser gives ic.
SourcesOf(P, app, ic) ==
    {e \in regions(P) : /\ <<app, e>> \in DOMAIN P.workloads
                        /\ smallest_fastest_cheapest_ic(P, app, e) = ic}

\* W: the workload of app in slot number n from all the sources of ic.
AggregateWorkload(P, app, ic, n) ==
    LET srcs == SourcesOf(P, app, ic)
    IN Sum([e \in srcs |-> P.workloads[<<app, e>>].values[n]], srcs)

\* C21: in every slot of a Solution of the greedy allocator and for every
\* app and instance class, with W the workload of the slot from all the
\* source regions sent to the instance class: there is a VM entry exactly
\* when W > 0, it is the ceiling of W / perf_per_slot (one ceiling over the
\* sum), and the recorded requests of the sources add up to W.
C21_VmsForAggregate ==
    GreedyReturned =>
        \A n \in DOMAIN result.sol.alloc :
            \A app \in Range(problem.system.apps), ic \in Range(problem.system.ics) :
                LET alloc == result.sol.alloc[n]
                    W == AggregateWorkload(problem, app, ic, n)
                    perf == perf_per_ts(problem, app, ic)
                    recorded == {t \in DOMAIN alloc.reqs : t[1] = app /\ t[3] = ic}
                IN /\ <<app, ic>> \in DOMAIN alloc.ics <=> W > 0
                   /\ W > 0 => /\ alloc.ics[<<app, ic>>] * perf >= W
                               /\ (alloc.ics[<<app, ic>>] - 1) * perf < W
                   /\ Sum([t \in recorded |-> alloc.reqs[t]], recorded) = W

\* The greedy allocator sent the requests of two source regions to one
\* instance class that serves more than each of them sends, and allocated
\* fewer VMs than sources.
C21_Witness ==
    /\ GreedyReturned
    /\ \E app \in Range(problem.system.apps), ic \in Range(problem.system.ics) :
          /\ Cardinality(SourcesOf(problem, app, ic)) = 2
          /\ \A e \in SourcesOf(problem, app, ic) : problem.workloads[<<app, e>>].values[1] > 0
          /\ perf_per_ts(problem, app, ic) > 1
          /\ result.sol.alloc[1].ics[<<app, ic>>] < 2


\* The greedy allocator's solve() ended.
GreedyDone == allocator = "Greedy" /\ pc \in {"done", "analyzed"}

\* Some (app, source region) with a positive workload in some slot has no
\* viable instance class: the chooser cannot choose for it.
PositivePairNotViable(P) ==
    \E t \in WorkloadPairs(P) :
        /\ \E n \in 1..workload_len(P) : P.workloads[t].values[n] > 0
        /\ ChooserError(P, t[1], t[2]) # None

\* C22: solve() of the greedy allocator fails exactly when some (app,
\* source region) with a positive workload in some slot has no viable
\* instance class; pairs without any request impose nothing; otherwise it
\* returns status OPTIMAL with one allocation per slot.
C22_NoViableInstance ==
    GreedyDone =>
        /\ result.kind = "error" <=> PositivePairNotViable(problem)
        /\ result.kind = "solution" =>
              /\ result.sol.solving_stats.status = "OPTIMAL"
              /\ Len(result.sol.alloc) = workload_len(problem)


\* _solve_CBC_patched returned or raised.
CbcReturned == allocator = "COIN_CMD" /\ pc = "cbc_returned"

\* C23: when the backend solve returns or raises, none of the temporary
\* files it made (model, solution, warm start, log) is left on disk.
C23_NoTemporaryFileLeft ==
    CbcReturned => DOMAIN fs \cap TmpFiles = {}


\* The number on the last line of the lines that begins with
\* "Lower bound:", None when no line does.
LastLowerBound(lines) ==
    LET at == {n \in DOMAIN lines : startswith_lower_bound(lines[n])}
    IN IF at = {} THEN None
       ELSE LET n == CHOOSE n \in at : \A m \in at : m <= n
            IN float(lines[n][Len(lines[n])]).value

\* Every line that begins with "Lower bound:" has one colon and a number
\* after it.
WellFormed(lines) ==
    \A n \in DOMAIN lines :
        startswith_lower_bound(lines[n]) =>
            Len(lines[n]) = 2 /\ float(lines[n][2]).kind = "value"

\* C24: when logPath is set and the solve returns, the file at that path
\* holds the output of the process, and the lower bound is the number on
\* the last line of the output that begins with "Lower bound:", None when
\* there is no such line (output with well-formed bound lines).
C24_LogAtLogPath ==
    (CbcReturned /\ result.kind = "status" /\ problem.logPath # None
       /\ WellFormed(result.output)) =>
        /\ problem.logPath \in DOMAIN fs
        /\ fs[problem.logPath] = result.output
        /\ result.bestBound = LastLowerBound(result.output)


\* The average response time of the Problem of lp is part of its model: R
\* minimizes it, C bounds it when max_avg_resp_time is set.
AverageInModel ==
    \/ lp.cls = "R"
    \/ lp.cls = "C" /\ lp.problem.max_avg_resp_time # TIME_UNDEFINED

\* C25: R, and C when max_avg_resp_time is set, reject a Problem without
\* any request: solve() ends with an error that is not the one of a
\* division by zero, max_cost set or not.
C25_EmptyWorkloadRejected ==
    (allocator \in {"C", "R"} /\ pc # "start" /\ AverageInModel
       /\ _get_total_reqs(problem) = 0) =>
        /\ Done
        /\ result.kind = "error"
        /\ result.error # "ZeroDivisionError"


\* The backend gave the variables values that satisfy the constraints.
Assigned == pc = "assigned"

\* The route of the variables named n, of some (a, e, i, k), meets the
\* deadline of the app: latency plus service time within max_resp_time.
RouteInTime(P, n) ==
    \E t \in YIndex(P), k \in Slots(P) :
        /\ _aeik_name(t[1], t[2], t[3], k) = n
        /\ TimeValue_to(resp_time(P.system, t[1], t[2], t[3]), "s")
              <= TimeValue_to(t[1].max_resp_time, "s")

Solved == pc = "solved"

\* The recorded status for the way the backend call ended: OPTIMAL only
\* for the codes optimal/optimal, INTEGER_FEASIBLE for an optimal problem
\* code with any other solution code, INFEASIBLE, ABORTED,
\* INTEGER_INFEASIBLE for the codes infeasible, not solved, undefined,
\* UNKNOWN for any other code, CBC_ERROR when the backend raised.
StatusOfCodes ==
    LET status == stats.status
        out == problem
    IN /\ status = "OPTIMAL" =>
             /\ ~out.raised
             /\ out.status = "LpStatusOptimal"
             /\ out.sol_status = "LpSolutionOptimal"
       /\ (~out.raised /\ out.status = "LpStatusOptimal"
             /\ out.sol_status # "LpSolutionOptimal") => status = "INTEGER_FEASIBLE"
       /\ (~out.raised /\ out.status = "LpStatusInfeasible") => status = "INFEASIBLE"
       /\ (~out.raised /\ out.status = "LpStatusNotSolved") => status = "ABORTED"
       /\ (~out.raised /\ out.status = "LpStatusUndefined") => status = "INTEGER_INFEASIBLE"
       /\ (~out.raised /\ out.status = "LpStatusUnbounded") => status = "UNKNOWN"
       /\ out.raised => status = "CBC_ERROR"

\* C27 as stated: the recorded status follows the codes of the backend as
\* above, and a lower_bound is recorded exactly when the status is
\* INTEGER_FEASIBLE.
C27_LowerBoundIffIntegerFeasible ==
    Solved =>
        /\ StatusOfCodes
        /\ stats.lower_bound # None <=> stats.status = "INTEGER_FEASIBLE"

\* C27, amended: the recorded status follows the codes of the backend as
\* above; with status INTEGER_FEASIBLE lower_bound is what the backend
\* gave as bound, nothing when it gave none, and with any other status
\* lower_bound is absent.
C27_RecordedStatus ==
    Solved =>
        /\ StatusOfCodes
        /\ stats.lower_bound =
              IF stats.status = "INTEGER_FEASIBLE" THEN problem.bestBound ELSE None

\* The statistics of a backend call that ended with an optimal problem
\* code and a solution that is feasible only: INTEGER_FEASIBLE with the
\* bound of the backend.
C27_Witness ==
    /\ Solved
    /\ problem.status = "LpStatusOptimal"
    /\ problem.sol_status = "LpSolutionIntegerFeasible"
    /\ stats = [status |-> "INTEGER_FEASIBLE", lower_bound |-> "3.0"]


Decoded == pc = "decoded"

\* |v| < 1e-7
VerySmall(v) == -v.den < v.num * EpsilonInverse /\ v.num * EpsilonInverse < v.den

\* C28: a value within 1e-7 of 0 is decoded as 0, a positive value beyond
\* that as itself, and a negative value beyond that makes decoding fail
\* with ValueError: no decoded request count is negative, and when one
\* value fails there is no allocation.
C28_DecodedRequests ==
    Decoded =>
        /\ result = Raised("ValueError")
              <=> \E n \in DOMAIN problem : problem[n].num < 0 /\ ~VerySmall(problem[n])
        /\ result.kind = "allocation" =>
              \A n \in DOMAIN problem :
                  /\ VerySmall(problem[n]) => result.reqs[n] = [num |-> 0, den |-> 1]
                  /\ (problem[n].num > 0 /\ ~VerySmall(problem[n]))
                        => result.reqs[n] = problem[n]
                  /\ result.reqs[n].num >= 0

\* Decoded requests from a very small negative value and a positive one.
C28_Witness ==
    /\ Decoded /\ result.kind = "allocation"
    /\ problem[1].num < 0
    /\ result.reqs[1].num = 0
    /\ result.reqs[2] = [num |-> 2, den |-> 1]


\* Some instance class that cannot run some app (no Performance) has a
\* route with a latency from a region of the Problem: a request variable
\* is created for it.
RouteToUnableIc(P) ==
    \E a \in Range(P.system.apps), e \in regions(P), i \in Range(P.system.ics) :
        _can_send_requests(P, e, i.region) /\ <<a, i>> \notin DOMAIN P.system.perfs

\* C29: a Solution with feasible status of a MILP allocator routes
\* requests only to instance classes with a Performance for the app; a
\* Problem where a request variable exists for an instance class without
\* one gets no Solution: building the model ends solve() with KeyError.
C29_RoutedOnlyToAbleIcs ==
    /\ FeasibleSol =>
          \A n \in DOMAIN result.sol.alloc :
              \A t \in DOMAIN result.sol.alloc[n].reqs :
                  result.sol.alloc[n].reqs[t] > 0
                      => <<t[1], t[3]>> \in DOMAIN problem.system.perfs
    /\ (pc # "start" /\ RouteToUnableIc(problem)) => result = Raised("KeyError")

\* A Solution with feasible status and requests routed, for a catalog with
\* an instance class that cannot run the app.
C29_Witness ==
    /\ FeasibleSol
    /\ \E i \in Range(problem.system.ics) :
          \E a \in Range(problem.system.apps) : <<a, i>> \notin DOMAIN problem.system.perfs
    /\ \E n \in DOMAIN result.sol.alloc :
          \E t \in DOMAIN result.sol.alloc[n].reqs : result.sol.alloc[n].reqs[t] > 0

\* _create_vars has run on a new allocator.
Named == pc = "named"

\* No entry of the list is in it twice.
HoldsEachOnce(names) ==
    \A m, n \in DOMAIN names : m # n => names[m] # names[n]

\* C30: for a System that passes validation and whose app, instance class
\* and region names are unique, two different (app, IC, slot) never get
\* the same X name and two different (app, region, IC, slot) never the
\* same Y/Z name: the lists x_names, y_names and z_names hold each name
\* once and there is one variable per index tuple.
C30_DistinctNames ==
    (Named /\ NamedSystemError(problem.system) = None
       /\ UniqueNames(problem.system.apps) /\ UniqueNames(problem.system.ics)) =>
        /\ HoldsEachOnce(result.x_names)
        /\ HoldsEachOnce(result.y_names)
        /\ HoldsEachOnce(result.z_names)
        /\ Cardinality(result.x) = Len(x_loop(problem))
        /\ Cardinality(result.y) = Len(y_loop(problem))
        /\ Cardinality(result.z) = Len(y_loop(problem))

==========================================================================
